---- MODULE Spec2Model ----
(***************************************************************************)
(* A model of rmrobinson/weather: the GeoSet nearest-point index, the      *)
(* weather API built on it, the station cache of the envcan and noaa       *)
(* stations, and the envcan feed decoding.                                 *)
(*                                                                         *)
(* Several specifications share the module.  Each one drives one part of   *)
(* the program and leaves the variables of the other parts parked at       *)
(* their initial value:                                                    *)
(*   SpecGeo   GeoSet.Add / GeoSet.Closest                                 *)
(*   Spec      the API (RegisterStation, GetCurrentReport, GetForecast)    *)
(*             over the stations of cmd/weatherd, calls one at a time      *)
(*   SpecConc  two goroutines calling GetReport/GetForecast on one station *)
(*   SpecDate  futureDateFromFeedDate                                      *)
(*   SpecFeed  Station.parseFeed                                           *)
(*   SpecForecastFor  Station.parseFeed on one forecast item               *)
(*   SpecCurrent      currentConditionsToCondition                         *)
(*   SpecFloat        floatFromFeedText                                    *)
(*   SpecNarrative    forecastConditionToCondition                         *)
(*   SpecIcon         iconFromFeedText                                     *)
(***************************************************************************)
EXTENDS Integers, Sequences, FiniteSets, TLC

VARIABLES
    entries,      \* GeoSet.entries: sequence of [latitude, longitude, value]
    query,        \* the last Closest call: its arguments, the set size it saw, its result
    stations,     \* the Station objects, in the order they were constructed
    now,          \* time.Now(), in minutes since the process started
    requests,     \* how many upstream HTTP requests have been issued
    ret,          \* the last API call: what it was given, what it did, what it returned
    crashed,      \* a panic has ended the process
    pc,           \* SpecConc: where each goroutine is in its station call
    local,        \* SpecConc: the local variables of each goroutine's call
    dateIn,       \* SpecDate: the arguments of futureDateFromFeedDate
    dateOut,      \* SpecDate: what it returned
    feedIn,       \* SpecFeed: the feed given to parseFeed
    feedOut,      \* SpecFeed: what it returned
    textIn,       \* the text decoders: the text one of them is given
    textOut       \* the text decoders: where it is in that text and what it has made of it

geoVars == <<entries, query>>
apiVars == <<stations, now, requests, ret, crashed>>
concVars == <<pc, local>>
dateVars == <<dateIn, dateOut>>
feedVars == <<feedIn, feedOut>>
textVars == <<textIn, textOut>>

vars == <<geoVars, apiVars, concVars, dateVars, feedVars, textVars>>

(***************************************************************************)
(* Coordinates.  A coordinate is a pair <<latitude, longitude>> in units   *)
(* of 1/10000 degree.                                                      *)
(***************************************************************************)
KW        == <<434510, -804880>>    \* envcan station of cmd/weatherd
SF        == <<377749, -1224194>>   \* noaa station of cmd/weatherd
UW        == <<434723, 805449>>     \* search point of the GeoSet test
Conestoga == <<434977, 805270>>     \* first entry of the GeoSet test
Fairview  == <<434242, 804392>>     \* second entry of the GeoSet test
Origin    == <<0, 0>>
East      == <<0, 100000>>          \* 10 degrees east of Origin on the equator
West      == <<0, -100000>>         \* 10 degrees west of Origin on the equator

Points == {KW, SF, UW, Conestoga, Fairview, Origin, East, West}

\* distance() of geoset.go evaluated on Points: 2*r*asin(sqrt(h)) with
\* r = 6371000 and h = hsin(la2-la1) + cos(la1)*cos(la2)*hsin(lo2-lo1),
\* in metres, rounded to the nearest metre.  The rounding keeps every
\* comparison between two distances from one point as the floats decide it;
\* East and West are exactly as far from Origin as each other.
HaversineMetres ==
      <<KW, KW>> :> 0
   @@ <<KW, SF>> :> 3556793
   @@ <<KW, UW>> :> 10167271
   @@ <<KW, Conestoga>> :> 10164185
   @@ <<KW, Fairview>> :> 10170448
   @@ <<KW, Origin>> :> 9241379
   @@ <<KW, East>> :> 10046936
   @@ <<KW, West>> :> 8447185
   @@ <<SF, SF>> :> 0
   @@ <<SF, UW>> :> 10688700
   @@ <<SF, Conestoga>> :> 10686462
   @@ <<SF, Fairview>> :> 10696426
   @@ <<SF, Origin>> :> 12795417
   @@ <<SF, East>> :> 13590322
   @@ <<SF, West>> :> 11958456
   @@ <<UW, UW>> :> 0
   @@ <<UW, Conestoga>> :> 3172
   @@ <<UW, Fairview>> :> 10071
   @@ <<UW, Origin>> :> 9246212
   @@ <<UW, East>> :> 8452207
   @@ <<UW, West>> :> 10051514
   @@ <<Conestoga, Conestoga>> :> 0
   @@ <<Conestoga, Fairview>> :> 10817
   @@ <<Conestoga, Origin>> :> 9245099
   @@ <<Conestoga, East>> :> 8451471
   @@ <<Conestoga, West>> :> 10050051
   @@ <<Fairview, Fairview>> :> 0
   @@ <<Fairview, Origin>> :> 9237123
   @@ <<Fairview, East>> :> 8442650
   @@ <<Fairview, West>> :> 10043013
   @@ <<Origin, Origin>> :> 0
   @@ <<Origin, East>> :> 1111949
   @@ <<Origin, West>> :> 1111949
   @@ <<East, East>> :> 0
   @@ <<East, West>> :> 2223899
   @@ <<West, West>> :> 0

\* func distance(lat1, lon1, lat2, lon2): symmetric in its two points.
distance(lat1, lon1, lat2, lon2) ==
    LET p == <<lat1, lon1>>
        q == <<lat2, lon2>>
    IN  IF <<p, q>> \in DOMAIN HaversineMetres
        THEN HaversineMetres[<<p, q>>]
        ELSE HaversineMetres[<<q, p>>]

(***************************************************************************)
(* GeoSet                                                                  *)
(***************************************************************************)
\* math.MaxFloat64, the starting shortestDistance: here the largest integer
\* of the model, above every distance on the sphere (at most 20015087 m).
MaxFloat64 == 2147483647

\* The nil interface value: what Closest returns when no entry was chosen.
NilValue == 0

\* The number of entries a GeoSet grows to in SpecGeo.
MaxEntries == 3

\* The payloads Add is given in SpecGeo.
Payloads == {1, 2}

NoQuery == [done |-> FALSE, lat |-> 0, lon |-> 0, n |-> 0, value |-> NilValue]

\* entry{lat, lon, value}
NewEntry(lat, lon, value) ==
    [latitude |-> lat, longitude |-> lon, value |-> value]

\* ClosestStep with <= where the loop has <: a later entry at the same
\* distance replaces the earlier one.
ClosestStepLE(acc, e, lat, lon) ==
    LET d == distance(lat, lon, e.latitude, e.longitude)
    IN  IF d <= acc.shortestDistance
        THEN [shortestDistance |-> d, value |-> e.value]
        ELSE acc

\* ClosestStep without the assignment shortestDistance = distance.
ClosestStepNoMin(acc, e, lat, lon) ==
    LET d == distance(lat, lon, e.latitude, e.longitude)
    IN  IF d < acc.shortestDistance
        THEN [shortestDistance |-> acc.shortestDistance, value |-> e.value]
        ELSE acc

\* The body of Closest's loop for one entry, on the running
\* [shortestDistance, value].
ClosestStep(acc, e, lat, lon) ==
    LET d == distance(lat, lon, e.latitude, e.longitude)
    IN  IF d < acc.shortestDistance
        THEN [shortestDistance |-> d, value |-> e.value]
        ELSE acc

RECURSIVE ClosestLoop(_, _, _, _, _)
ClosestLoop(es, i, acc, lat, lon) ==
    IF i > Len(es)
    THEN acc
    ELSE ClosestLoop(es, i + 1, ClosestStep(acc, es[i], lat, lon), lat, lon)

\* func (gs *GeoSet) Closest(lat, lon) interface{}
Closest(es, lat, lon) ==
    ClosestLoop(es, 1, [shortestDistance |-> MaxFloat64, value |-> NilValue],
                lat, lon).value

(***************************************************************************)
(* Stations (envcan/station.go and the noaa station)                       *)
(***************************************************************************)
\* refreshFrequency = time.Minute * 30, in minutes.
refreshFrequency == 30

\* The zero time.Time of a station that was never refreshed: year 1, about
\* a thousand million minutes before the process started.
ZeroTime == -1000000000

\* A nil *WeatherReport, a nil []*WeatherForecast, a nil *gofeed.Feed or
\* *feature.  A report, forecast list or feed that is not nil is named by the
\* number of the upstream request that produced it.
Nil == 0

\* A nil error.
NoError == "nil"

\* The clock stops at MaxNow; it moves in steps of TickMinutes.
MaxNow == 70
TickMinutes == 10

\* Upstream requests a run may issue.
MaxRequests == 3

\* NewStation(logger, url, title, lat, lon): nothing cached, never refreshed.
NewStation(kind, title, lat, lon) ==
    [kind |-> kind, title |-> title, latitude |-> lat, longitude |-> lon,
     currentReport |-> Nil, forecast |-> Nil, lastRefreshed |-> ZeroTime]

\* What the upstream can do with one request of a station of this kind:
\*   doErr      client.Do fails (network failure, cancelled context)
\*   non200     a response whose status is not 200
\*   parseErr   gofeed cannot parse the body        (envcan)
\*   decodeErr  the body is not the JSON of a feature (noaa)
\*   wrongType  a JSON object whose type is not "Feature" (noaa)
\*   ok         a well-formed document
Outcomes(kind) ==
    IF kind = "envcan"
    THEN {"ok", "doErr", "non200", "parseErr"}
    ELSE {"ok", "doErr", "non200", "decodeErr", "wrongType"}

\* Station.getFeed / Station.getFeature: the document (request number n) or
\* nil, and the error.  A non-200 answer, and a noaa object of another type,
\* give nil with a nil error.
getFeed(kind, outcome, n) ==
    CASE outcome = "ok"                      -> [feed |-> n,   err |-> NoError]
      [] outcome \in {"non200", "wrongType"} -> [feed |-> Nil, err |-> NoError]
      [] OTHER                               -> [feed |-> Nil, err |-> outcome]

\* Station.parseFeed / Station.parseFeature as refresh sees them, on what
\* getFeed returned.  Both read through the pointer they are given
\* (feed.Items, f.Properties): a nil pointer panics.  Neither returns an
\* error.  The noaa station never fills its forecast list.  What parseFeed
\* makes of the items of a feed is parseFeed below.
parseFetched(kind, feed) ==
    IF feed = Nil
    THEN [panic |-> TRUE, report |-> Nil, forecast |-> Nil, err |-> NoError]
    ELSE [panic |-> FALSE, report |-> feed,
          forecast |-> IF kind = "envcan" THEN feed ELSE Nil, err |-> NoError]

\* shouldRefresh with "not before" where the code has After: a cache of
\* exactly refreshFrequency is refreshed too.
shouldRefreshFromTTL(s, t) ==
    t - refreshFrequency >= s.lastRefreshed

\* func (s *Station) shouldRefresh() bool, at time t:
\* time.Now().Add(refreshFrequency * -1).After(s.lastRefreshed).
shouldRefresh(s, t) ==
    t - refreshFrequency > s.lastRefreshed

\* refresh assigning s.currentReport only while none is cached.
refreshKeepsReport(s, outcome, n, t, latency) ==
    LET got == getFeed(s.kind, outcome, n)
        parsed == parseFetched(s.kind, got.feed)
    IN  IF got.err # NoError
        THEN [panic |-> FALSE, err |-> got.err, st |-> s]
        ELSE IF parsed.panic
        THEN [panic |-> TRUE, err |-> NoError, st |-> s]
        ELSE [panic |-> FALSE, err |-> NoError,
              st |-> [s EXCEPT !.currentReport =
                                   IF s.currentReport = Nil THEN parsed.report
                                   ELSE s.currentReport,
                               !.forecast = parsed.forecast,
                               !.lastRefreshed = t + latency]]

\* func (s *Station) refresh(ctx) error: the request is number n, ends with
\* `outcome` and takes `latency` minutes.  Gives the error, whether it
\* panicked, and the station afterwards.
refresh(s, outcome, n, t, latency) ==
    LET got == getFeed(s.kind, outcome, n)
        parsed == parseFetched(s.kind, got.feed)
    IN  IF got.err # NoError
        THEN [panic |-> FALSE, err |-> got.err, st |-> s]
        ELSE IF parsed.panic
        THEN [panic |-> TRUE, err |-> NoError, st |-> s]
        ELSE IF parsed.err # NoError
        THEN [panic |-> FALSE, err |-> parsed.err, st |-> s]
        ELSE [panic |-> FALSE, err |-> NoError,
              st |-> [s EXCEPT !.currentReport = parsed.report,
                               !.forecast = parsed.forecast,
                               !.lastRefreshed = t + latency]]

\* GetForecast with a cache of its own that is never fresh: it refreshes on
\* every call.
StationGetForecastApart(field, s, outcome, n, t, latency) ==
    IF field = "forecast" \/ shouldRefresh(s, t)
    THEN LET r == refresh(s, outcome, n, t, latency)
         IN  [panic |-> r.panic, err |-> r.err, fetched |-> TRUE, st |-> r.st,
              value |-> IF r.panic \/ r.err # NoError THEN Nil
                        ELSE IF field = "report" THEN r.st.currentReport
                        ELSE r.st.forecast]
    ELSE [panic |-> FALSE, err |-> NoError, fetched |-> FALSE, st |-> s,
          value |-> IF field = "report" THEN s.currentReport ELSE s.forecast]

\* func (s *Station) GetReport(ctx) (*WeatherReport, error) and
\* func (s *Station) GetForecast(ctx) ([]*WeatherForecast, error), called at
\* time t: the value and error returned, whether the call panicked, whether
\* it issued a request, and the station afterwards.
StationGet(field, s, outcome, n, t, latency) ==
    IF shouldRefresh(s, t)
    THEN LET r == refresh(s, outcome, n, t, latency)
         IN  [panic |-> r.panic, err |-> r.err, fetched |-> TRUE, st |-> r.st,
              value |-> IF r.panic \/ r.err # NoError THEN Nil
                        ELSE IF field = "report" THEN r.st.currentReport
                        ELSE r.st.forecast]
    ELSE [panic |-> FALSE, err |-> NoError, fetched |-> FALSE, st |-> s,
          value |-> IF field = "report" THEN s.currentReport ELSE s.forecast]

GetReport(s, outcome, n, t, latency) ==
    StationGet("report", s, outcome, n, t, latency)

GetForecast(s, outcome, n, t, latency) ==
    StationGet("forecast", s, outcome, n, t, latency)

(***************************************************************************)
(* The API (the weather package's API type) over the stations that         *)
(* cmd/weatherd constructs.                                                *)
(***************************************************************************)
\* main(): kwStation, then sfStation.
WeatherdStations ==
    << NewStation("envcan", "Kitchener Waterloo", KW[1], KW[2]),
       NewStation("noaa", "San Francisco", SF[1], SF[2]) >>

NoStation == NewStation("none", "", 0, 0)

NoCall ==
    [op |-> "none", station |-> NilValue, at |-> 0, pre |-> NoStation,
     requestsBefore |-> 0, outcome |-> "none", fetched |-> FALSE, stationPanic |-> FALSE,
     stationErr |-> NoError, stationValue |-> Nil,
     status |-> "none", code |-> "none", report |-> Nil, forecast |-> Nil,
     stationName |-> ""]

\* The goroutines of SpecConc, two requests served at the same time; the
\* other specifications have none running.
Goroutines == {1, 2}

NoLocal ==
    [op |-> "none", feed |-> Nil, report |-> Nil, forecast |-> Nil,
     err |-> NoError, value |-> Nil]

ConcParked ==
    /\ pc = [g \in Goroutines |-> "idle"]
    /\ local = [g \in Goroutines |-> NoLocal]

\* A time.Time is [day, minute]: the days since Sunday 2018-12-30 and the
\* minute of that day, in the time's own location (no daylight saving).
Time(day, minute) == [day |-> day, minute |-> minute]

\* A nil *time.Time, and the absent timestamp of a message.
NilTime == Time(-1, 0)

NoDateOut == [done |-> FALSE, date |-> NilTime, err |-> NoError]
NoFeedOut == [done |-> FALSE, panic |-> FALSE, forecasts |-> <<>>]
NoTextOut == [done |-> FALSE]

\* No text decoder is at work.
DecodersParked ==
    /\ textIn = <<>>
    /\ textOut = NoTextOut

\* Neither futureDateFromFeedDate nor parseFeed is at work.
FeedParked ==
    /\ dateIn = [startDate |-> NilTime, futureDayOfWeek |-> <<>>]
    /\ dateOut = NoDateOut
    /\ feedIn = <<>>
    /\ feedOut = NoFeedOut

\* The other specifications leave the decoders untouched.
TextParked ==
    /\ FeedParked
    /\ DecodersParked

\* The other specifications leave the API untouched.
ApiParked ==
    /\ stations = <<>>
    /\ now = 0
    /\ requests = 0
    /\ ret = NoCall
    /\ crashed = FALSE

\* NewAPI(logger): an empty GeoSet, no station yet.
Init ==
    /\ entries = <<>>
    /\ query = NoQuery
    /\ ApiParked
    /\ ConcParked
    /\ TextParked

\* func (api *API) RegisterStation(s Station), for the next station of main().
RegisterStation ==
    /\ ~crashed
    /\ Len(stations) < Len(WeatherdStations)
    /\ LET s == WeatherdStations[Len(stations) + 1]
       IN  /\ stations' = Append(stations, s)
           /\ entries' = Append(entries,
                                NewEntry(s.latitude, s.longitude, Len(stations) + 1))
    /\ UNCHANGED <<query, now, requests, ret, crashed, concVars, dateVars, feedVars, textVars>>

\* What an API call records of the station call it made.
CallRecord(op, c, r, outcome) ==
    [NoCall EXCEPT !.op = op, !.station = c, !.at = now, !.pre = stations[c],
                   !.requestsBefore = requests,
                   !.outcome = IF r.fetched THEN outcome ELSE "none",
                   !.fetched = r.fetched, !.stationPanic = r.panic,
                   !.stationErr = r.err, !.stationValue = r.value]

\* s := api.stations.Closest(lat, lon).(Station): a type assertion without
\* the comma-ok form panics when the interface value is nil.
AssertStation(value) ==
    [panic |-> value = NilValue, s |-> value]

\* The call ends before it reaches a station: in a panic, or returning
\* ErrLocationNotFound.Err() (codes.NotFound).
EndWithoutStation(op, panic) ==
    /\ ret' = [NoCall EXCEPT !.op = op, !.at = now, !.requestsBefore = requests,
                             !.status = IF panic THEN "panic" ELSE "err",
                             !.code = IF panic THEN "none" ELSE "NotFound"]
    /\ crashed' = panic
    /\ UNCHANGED <<stations, now, requests>>

\* The upstream's part in a station call: a call that issues a request gets
\* one of the outcomes of the station's kind, within the bounds of the run; a
\* call that issues none has no upstream outcome and takes no time.
Upstream(s, r, outcome, latency) ==
    IF r.fetched
    THEN /\ outcome \in Outcomes(s.kind)
         /\ requests < MaxRequests
         /\ now + latency <= MaxNow
    ELSE /\ outcome = "ok"
         /\ latency = 0

\* What the call leaves behind when the station call has returned or panicked.
AfterStationCall(c, r, latency) ==
    /\ stations' = [stations EXCEPT ![c] = r.st]
    /\ requests' = IF r.fetched THEN requests + 1 ELSE requests
    /\ now' = IF r.fetched THEN now + latency ELSE now
    /\ crashed' = r.panic

\* func (api *API) GetCurrentReport(ctx, req): an error of the station is
\* logged and the response is returned all the same, with a nil error.
GetCurrentReport(lat, lon, outcome, latency) ==
    /\ ~crashed
    /\ LET a == AssertStation(Closest(entries, lat, lon))
           c == a.s
       IN  IF a.panic
           THEN EndWithoutStation("GetCurrentReport", TRUE)
           ELSE IF c = NilValue
           THEN EndWithoutStation("GetCurrentReport", FALSE)
           ELSE \E r \in {GetReport(stations[c], outcome, requests + 1, now, latency)} :
                LET call == CallRecord("GetCurrentReport", c, r, outcome)
                IN  /\ Upstream(stations[c], r, outcome, latency)
                    /\ AfterStationCall(c, r, latency)
                    /\ ret' = IF r.panic
                              THEN [call EXCEPT !.status = "panic"]
                              ELSE [call EXCEPT !.status = "ok", !.code = "OK",
                                                !.report = r.value,
                                                !.stationName = stations[c].title]
    /\ UNCHANGED <<entries, query, concVars, dateVars, feedVars, textVars>>

\* func (api *API) GetForecast(ctx, req): an error of the station is returned.
GetForecastRecords(lat, lon, outcome, latency) ==
    /\ ~crashed
    /\ LET a == AssertStation(Closest(entries, lat, lon))
           c == a.s
       IN  IF a.panic
           THEN EndWithoutStation("GetForecast", TRUE)
           ELSE IF c = NilValue
           THEN EndWithoutStation("GetForecast", FALSE)
           ELSE \E r \in {GetForecast(stations[c], outcome, requests + 1, now, latency)} :
                LET call == CallRecord("GetForecast", c, r, outcome)
                IN  /\ Upstream(stations[c], r, outcome, latency)
                    /\ AfterStationCall(c, r, latency)
                    /\ ret' = IF r.panic
                              THEN [call EXCEPT !.status = "panic"]
                              ELSE IF r.err # NoError
                              THEN [call EXCEPT !.status = "err", !.code = r.err]
                              ELSE [call EXCEPT !.status = "ok", !.code = "OK",
                                                !.forecast = r.value]
    /\ UNCHANGED <<entries, query, concVars, dateVars, feedVars, textVars>>

\* Time passes between two calls.
Tick ==
    /\ ~crashed
    /\ now + TickMinutes <= MaxNow
    /\ now' = now + TickMinutes
    /\ UNCHANGED <<entries, query, stations, requests, ret, crashed, concVars, dateVars, feedVars, textVars>>

Latencies == {0, TickMinutes}
QueryPoints == {KW, SF}

\* The answers the upstream can give to a query for this point: those of the
\* kind of the station the query goes to, each after one of the latencies.
Answers(lat, lon) ==
    LET c == Closest(entries, lat, lon)
    IN  IF c = NilValue
        THEN {<<"ok", 0>>}
        ELSE (Outcomes(stations[c].kind) \X Latencies) \cup {<<"ok", 0>>}

Next ==
    \/ RegisterStation
    \/ \E p \in QueryPoints : \E a \in Answers(p[1], p[2]) :
          GetCurrentReport(p[1], p[2], a[1], a[2])
    \/ \E p \in QueryPoints : \E a \in Answers(p[1], p[2]) :
          GetForecastRecords(p[1], p[2], a[1], a[2])
    \/ Tick

Spec == Init /\ [][Next]_vars

(***************************************************************************)
(* One station called from several goroutines (the gRPC server runs each   *)
(* request in a goroutine of its own).  The station has no lock: a call is *)
(* a sequence of steps, and the steps of the calls interleave.             *)
(*   idle -> check -> getFeed -> parse -> setReport -> setForecast         *)
(*        -> setLastRefreshed -> return -> idle                            *)
(* A call that finds the cache fresh goes from check to return; a call     *)
(* whose refresh fails goes back to idle with the error.                   *)
(***************************************************************************)
\* The station of SpecConc.
TheStation == stations[1]

ConcInit ==
    /\ entries = <<>>
    /\ query = NoQuery
    /\ \E s \in {WeatherdStations[i] : i \in DOMAIN WeatherdStations} :
          stations = <<s>>
    /\ now = 0
    /\ requests = 0
    /\ ret = NoCall
    /\ crashed = FALSE
    /\ ConcParked
    /\ TextParked

ConcUnchanged == UNCHANGED <<entries, query, ret, dateVars, feedVars, textVars>>

\* A goroutine enters GetReport (op = "report") or GetForecast ("forecast").
ConcCall(g, op) ==
    /\ ~crashed
    /\ pc[g] = "idle"
    /\ pc' = [pc EXCEPT ![g] = "check"]
    /\ local' = [local EXCEPT ![g] = [NoLocal EXCEPT !.op = op]]
    /\ UNCHANGED <<stations, now, requests, crashed>>
    /\ ConcUnchanged

\* if s.shouldRefresh()
ConcCheck(g) ==
    /\ ~crashed
    /\ pc[g] = "check"
    /\ pc' = [pc EXCEPT ![g] = IF shouldRefresh(TheStation, now)
                               THEN "getFeed" ELSE "return"]
    /\ UNCHANGED <<stations, now, requests, crashed, local>>
    /\ ConcUnchanged

\* feed, err := s.getFeed(ctx); if err != nil { return err }
ConcGetFeed(g, outcome) ==
    /\ ~crashed
    /\ pc[g] = "getFeed"
    /\ requests < MaxRequests
    /\ outcome \in Outcomes(TheStation.kind)
    /\ requests' = requests + 1
    /\ LET got == getFeed(TheStation.kind, outcome, requests + 1)
       IN  IF got.err # NoError
           THEN /\ pc' = [pc EXCEPT ![g] = "idle"]
                /\ local' = [local EXCEPT ![g].err = got.err]
           ELSE /\ pc' = [pc EXCEPT ![g] = "parse"]
                /\ local' = [local EXCEPT ![g].feed = got.feed]
    /\ UNCHANGED <<stations, now, crashed>>
    /\ ConcUnchanged

\* report, forecast, err := s.parseFeed(feed)
ConcParse(g) ==
    /\ ~crashed
    /\ pc[g] = "parse"
    /\ LET parsed == parseFetched(TheStation.kind, local[g].feed)
       IN  IF parsed.panic
           THEN /\ crashed' = TRUE
                /\ UNCHANGED <<pc, local>>
           ELSE /\ crashed' = FALSE
                /\ pc' = [pc EXCEPT ![g] = "setReport"]
                /\ local' = [local EXCEPT ![g].report = parsed.report,
                                          ![g].forecast = parsed.forecast]
    /\ UNCHANGED <<stations, now, requests>>
    /\ ConcUnchanged

\* s.currentReport = report
ConcSetReport(g) ==
    /\ ~crashed
    /\ pc[g] = "setReport"
    /\ stations' = [stations EXCEPT ![1].currentReport = local[g].report]
    /\ pc' = [pc EXCEPT ![g] = "setForecast"]
    /\ UNCHANGED <<now, requests, crashed, local>>
    /\ ConcUnchanged

\* s.forecast = forecast
ConcSetForecast(g) ==
    /\ ~crashed
    /\ pc[g] = "setForecast"
    /\ stations' = [stations EXCEPT ![1].forecast = local[g].forecast]
    /\ pc' = [pc EXCEPT ![g] = "setLastRefreshed"]
    /\ UNCHANGED <<now, requests, crashed, local>>
    /\ ConcUnchanged

\* s.lastRefreshed = time.Now()
ConcSetLastRefreshed(g) ==
    /\ ~crashed
    /\ pc[g] = "setLastRefreshed"
    /\ stations' = [stations EXCEPT ![1].lastRefreshed = now]
    /\ pc' = [pc EXCEPT ![g] = "return"]
    /\ UNCHANGED <<now, requests, crashed, local>>
    /\ ConcUnchanged

\* return s.currentReport, nil / return s.forecast, nil
ConcReturn(g) ==
    /\ ~crashed
    /\ pc[g] = "return"
    /\ pc' = [pc EXCEPT ![g] = "idle"]
    /\ local' = [local EXCEPT ![g].value =
                    IF local[g].op = "report" THEN TheStation.currentReport
                    ELSE TheStation.forecast]
    /\ UNCHANGED <<stations, now, requests, crashed>>
    /\ ConcUnchanged

\* Time passes.
ConcTick ==
    /\ ~crashed
    /\ now + TickMinutes <= MaxNow
    /\ now' = now + TickMinutes
    /\ UNCHANGED <<stations, requests, crashed, concVars>>
    /\ ConcUnchanged

ConcNext ==
    \/ \E g \in Goroutines, op \in {"report", "forecast"} : ConcCall(g, op)
    \/ \E g \in Goroutines : ConcCheck(g)
    \/ \E g \in Goroutines, o \in Outcomes(TheStation.kind) : ConcGetFeed(g, o)
    \/ \E g \in Goroutines : ConcParse(g)
    \/ \E g \in Goroutines : ConcSetReport(g)
    \/ \E g \in Goroutines : ConcSetForecast(g)
    \/ \E g \in Goroutines : ConcSetLastRefreshed(g)
    \/ \E g \in Goroutines : ConcReturn(g)
    \/ ConcTick

SpecConc == ConcInit /\ [][ConcNext]_vars

(***************************************************************************)
(* Text and dates.  A string is a sequence of one-character strings.       *)
(***************************************************************************)
UpperCase == <<"A", "B", "C", "D", "E", "F", "G", "H", "I", "J", "K", "L", "M",
               "N", "O", "P", "Q", "R", "S", "T", "U", "V", "W", "X", "Y", "Z">>
LowerCase == <<"a", "b", "c", "d", "e", "f", "g", "h", "i", "j", "k", "l", "m",
               "n", "o", "p", "q", "r", "s", "t", "u", "v", "w", "x", "y", "z">>

\* strings.ToLower, one character.
ToLowerChar(c) ==
    IF \E i \in DOMAIN UpperCase : UpperCase[i] = c
    THEN LowerCase[CHOOSE i \in DOMAIN UpperCase : UpperCase[i] = c]
    ELSE c

\* strings.ToLower
ToLower(str) == [i \in DOMAIN str |-> ToLowerChar(str[i])]

\* strings.ToUpper (used to spell the inputs only)
ToUpper(str) ==
    [i \in DOMAIN str |->
        IF \E k \in DOMAIN LowerCase : LowerCase[k] = str[i]
        THEN UpperCase[CHOOSE k \in DOMAIN LowerCase : LowerCase[k] = str[i]]
        ELSE str[i]]

\* Whether sep occurs in str at position i.
OccursAt(str, sep, i) ==
    /\ i + Len(sep) - 1 <= Len(str)
    /\ \A k \in 1 .. Len(sep) : str[i + k - 1] = sep[k]

\* strings.Index, from position i on: the first position from i on where
\* sep occurs, 0 when there is none.
RECURSIVE IndexFrom(_, _, _)
IndexFrom(str, sep, i) ==
    IF i + Len(sep) - 1 > Len(str)
    THEN 0
    ELSE IF OccursAt(str, sep, i)
    THEN i
    ELSE IndexFrom(str, sep, i + 1)

\* strings.Split(str, sep) for a separator that is not empty: the pieces of
\* str between the occurrences of sep, always at least one piece.
RECURSIVE Split(_, _)
Split(str, sep) ==
    LET first == IndexFrom(str, sep, 1)
    IN  IF first = 0
        THEN <<str>>
        ELSE <<SubSeq(str, 1, first - 1)>>
             \o Split(SubSeq(str, first + Len(sep), Len(str)), sep)

\* var dayOfWeek
dayOfWeek ==
    << <<"s", "u", "n", "d", "a", "y">>,
       <<"m", "o", "n", "d", "a", "y">>,
       <<"t", "u", "e", "s", "d", "a", "y">>,
       <<"w", "e", "d", "n", "e", "s", "d", "a", "y">>,
       <<"t", "h", "u", "r", "s", "d", "a", "y">>,
       <<"f", "r", "i", "d", "a", "y">>,
       <<"s", "a", "t", "u", "r", "d", "a", "y">> >>

\* The names time.Time.Format("Monday") prints, Sunday first.
WeekdayNames ==
    << <<"S", "u", "n", "d", "a", "y">>,
       <<"M", "o", "n", "d", "a", "y">>,
       <<"T", "u", "e", "s", "d", "a", "y">>,
       <<"W", "e", "d", "n", "e", "s", "d", "a", "y">>,
       <<"T", "h", "u", "r", "s", "d", "a", "y">>,
       <<"F", "r", "i", "d", "a", "y">>,
       <<"S", "a", "t", "u", "r", "d", "a", "y">> >>

\* deltaBetweenDays with rows and columns exchanged: the days back to the
\* future day.
deltaBetweenDaysBackward ==
    << <<0, 6, 5, 4, 3, 2, 1>>,
       <<1, 0, 6, 5, 4, 3, 2>>,
       <<2, 1, 0, 6, 5, 4, 3>>,
       <<3, 2, 1, 0, 6, 5, 4>>,
       <<4, 3, 2, 1, 0, 6, 5>>,
       <<5, 4, 3, 2, 1, 0, 6>>,
       <<6, 5, 4, 3, 2, 1, 0>> >>

\* var deltaBetweenDays: row = the start day, column = the future day.
deltaBetweenDays ==
    << <<0, 1, 2, 3, 4, 5, 6>>,
       <<6, 0, 1, 2, 3, 4, 5>>,
       <<5, 6, 0, 1, 2, 3, 4>>,
       <<4, 5, 6, 0, 1, 2, 3>>,
       <<3, 4, 5, 6, 0, 1, 2>>,
       <<2, 3, 4, 5, 6, 0, 1>>,
       <<1, 2, 3, 4, 5, 6, 0>> >>

\* time.Time.Weekday, Sunday = 0.
Weekday(t) == t.day % 7

\* startDate.Format("Monday")
FormatMonday(t) == WeekdayNames[Weekday(t) + 1]

\* startDate.AddDate(0, 0, days)
AddDate(t, days) == Time(t.day + days, t.minute)

\* time.Date(t.Year(), t.Month(), t.Day(), hour, 0, 0, 0, t.Location())
AtHour(t, hour) == Time(t.day, hour * 60)

\* The index loops of futureDateFromFeedDate: the first index (from 0) of
\* name in dayOfWeek, -1 when it is not there.
DayIdx(name) ==
    IF \E i \in DOMAIN dayOfWeek : dayOfWeek[i] = name
    THEN (CHOOSE i \in DOMAIN dayOfWeek :
             /\ dayOfWeek[i] = name
             /\ \A j \in DOMAIN dayOfWeek : dayOfWeek[j] = name => i <= j) - 1
    ELSE -1

ErrInvalidDate == "invalid date supplied"

\* func futureDateFromFeedDate(startDate, futureDayOfWeek) (time.Time, error)
futureDateFromFeedDate(startDate, futureDayOfWeek) ==
    LET futureDayIdx == DayIdx(ToLower(futureDayOfWeek))
        startDayIdx == DayIdx(ToLower(FormatMonday(startDate)))
    IN  IF futureDayIdx < 0 \/ startDayIdx < 0
        THEN [date |-> startDate, err |-> ErrInvalidDate]
        ELSE [date |-> AddDate(startDate,
                               deltaBetweenDays[startDayIdx + 1][futureDayIdx + 1]),
              err |-> NoError]

(***************************************************************************)
(* futureDateFromFeedDate on its own                                       *)
(***************************************************************************)
\* The start dates run over the days 0 .. MaxStartDay.
MaxStartDay == 7

\* The times of day of the start dates: 00:00, 11:00 (the hour of the
\* forecast of the tests) and 23:59.
StartMinutes == {0, 660, 1439}

\* strings.Title of a lower-case word: its first letter in upper case.
Capitalized(str) ==
    [i \in DOMAIN str |-> IF i = 1 THEN ToUpper(<<str[1]>>)[1] ELSE str[i]]

Taco == <<"T", "a", "c", "o">>
Night == <<"n", "i", "g", "h", "t">>

\* The day names given to the resolver: every day in lower case, capitalized
\* and in upper case, and names that are no day: "Taco", the empty string,
\* "night", "Mon", "Mondays" and " monday".
TargetNames ==
    {dayOfWeek[i] : i \in DOMAIN dayOfWeek}
    \cup {Capitalized(dayOfWeek[i]) : i \in DOMAIN dayOfWeek}
    \cup {ToUpper(dayOfWeek[i]) : i \in DOMAIN dayOfWeek}
    \cup {Taco, <<>>, Night, <<"M", "o", "n">>,
          WeekdayNames[2] \o <<"s">>, <<" ">> \o dayOfWeek[2]}

DateInit ==
    /\ entries = <<>>
    /\ query = NoQuery
    /\ ApiParked
    /\ ConcParked
    /\ dateIn \in [startDate : {Time(d, m) : d \in 0 .. MaxStartDay, m \in StartMinutes},
                   futureDayOfWeek : TargetNames]
    /\ dateOut = NoDateOut
    /\ feedIn = <<>>
    /\ feedOut = NoFeedOut
    /\ DecodersParked

\* A call futureDateFromFeedDate(dateIn.startDate, dateIn.futureDayOfWeek).
Resolve ==
    /\ ~dateOut.done
    /\ LET r == futureDateFromFeedDate(dateIn.startDate, dateIn.futureDayOfWeek)
       IN  dateOut' = [done |-> TRUE, date |-> r.date, err |-> r.err]
    /\ UNCHANGED <<geoVars, apiVars, concVars, dateIn, feedVars, textVars>>

DateNext == Resolve

SpecDate == DateInit /\ [][DateNext]_vars

(***************************************************************************)
(* Station.parseFeed of the envcan station, on the items of a feed.        *)
(***************************************************************************)
\* *gofeed.Item: the fields parseFeed reads.
Item(categories, guid, title, description, published, updated) ==
    [Categories |-> categories, GUID |-> guid, Title |-> title,
     Description |-> description, PublishedParsed |-> published,
     UpdatedParsed |-> updated]

\* The WeatherCondition a decoder makes of a description.  The descriptions
\* of SpecFeed are opaque: the condition names the decoder and its input.
Decoded(decoder, description) ==
    [decoder |-> decoder, description |-> description]

\* &weather.WeatherReport{Conditions: &weather.WeatherCondition{}}
EmptyReport ==
    [ObservedAt |-> NilTime, ObservationId |-> 0, CreatedAt |-> NilTime,
     UpdatedAt |-> NilTime, Conditions |-> Decoded("none", 0)]

\* ForecastOf without the "night" case: every forecast is for 12:00.
ForecastOfNoon(item) ==
    LET words == Split(Split(item.Title, <<":">>)[1], <<" ">>)
        resolved == futureDateFromFeedDate(item.PublishedParsed, words[1])
    IN  [ForecastId |-> item.GUID,
         Conditions |-> Decoded("forecastConditionToCondition", item.Description),
         CreatedAt |-> item.PublishedParsed,
         UpdatedAt |-> item.UpdatedParsed,
         ForecastedFor |->
            IF resolved.err # NoError THEN NilTime
            ELSE AtHour(resolved.date, 12)]

\* The forecast a "Weather Forecasts" category of an item appends; the item
\* has its two dates.
ForecastOf(item) ==
    LET forecastDayOfWeek == Split(Split(item.Title, <<":">>)[1], <<" ">>)
        resolved == futureDateFromFeedDate(item.PublishedParsed, forecastDayOfWeek[1])
    IN  [ForecastId |-> item.GUID,
         Conditions |-> Decoded("forecastConditionToCondition", item.Description),
         CreatedAt |-> item.PublishedParsed,
         UpdatedAt |-> item.UpdatedParsed,
         ForecastedFor |->
            IF resolved.err # NoError THEN NilTime
            ELSE IF Len(forecastDayOfWeek) > 1 /\ forecastDayOfWeek[2] = Night
            THEN AtHour(resolved.date, 23)
            ELSE AtHour(resolved.date, 12)]

\* The body of the inner loop of parseFeed, for one category of one item, on
\* the running [panic, report, forecasts].  *item.UpdatedParsed and
\* *item.PublishedParsed panic on a nil pointer.
ParseCategory(acc, item, category) ==
    IF acc.panic
    THEN acc
    ELSE IF category = "Current Conditions"
    THEN IF item.UpdatedParsed = NilTime \/ item.PublishedParsed = NilTime
         THEN [acc EXCEPT !.panic = TRUE]
         ELSE [acc EXCEPT !.report =
                  [ObservedAt |-> item.UpdatedParsed,
                   ObservationId |-> item.GUID,
                   CreatedAt |-> item.PublishedParsed,
                   UpdatedAt |-> item.UpdatedParsed,
                   Conditions |-> Decoded("currentConditionsToCondition",
                                          item.Description)]]
    ELSE IF category = "Weather Forecasts"
    THEN IF item.PublishedParsed = NilTime \/ item.UpdatedParsed = NilTime
         THEN [acc EXCEPT !.panic = TRUE]
         ELSE [acc EXCEPT !.forecasts = Append(acc.forecasts, ForecastOf(item))]
    ELSE acc

\* for _, category := range item.Categories
RECURSIVE ParseCategories(_, _, _)
ParseCategories(acc, item, i) ==
    IF i > Len(item.Categories)
    THEN acc
    ELSE ParseCategories(ParseCategory(acc, item, item.Categories[i]), item, i + 1)

\* for _, item := range feed.Items
RECURSIVE ParseItems(_, _, _)
ParseItems(acc, items, i) ==
    IF i > Len(items)
    THEN acc
    ELSE ParseItems(ParseCategories(acc, items[i], 1), items, i + 1)

\* func (s *Station) parseFeed(feed) (report, forecasts, error), on
\* feed.Items; the error is always nil.
parseFeed(items) ==
    ParseItems([panic |-> FALSE, report |-> EmptyReport, forecasts |-> <<>>],
               items, 1)

\* The number of items of a feed of SpecFeed.
MaxItems == 2

\* The category lists of an item: none, one or two of the categories the
\* feed uses.
FeedCategories == {"Current Conditions", "Weather Forecasts"}
CategoryLists ==
    {<<>>} \cup {<<c>> : c \in FeedCategories}
           \cup {<<c, d>> : c \in FeedCategories, d \in FeedCategories}

\* The titles of an item: "Monday: x", "Monday night: x" and "Taco: x".
Titles ==
    { WeekdayNames[2] \o <<":", " ", "x">>,
      WeekdayNames[2] \o <<" ">> \o Night \o <<":", " ", "x">>,
      Taco \o <<":", " ", "x">> }

\* Saturday 2019-01-05 11:00, the date of the forecast of the tests.
Published == Time(6, 660)
Updated == Time(6, 720)

\* The dates of an item: both, or one of them missing.
ItemDates == {<<Published, Updated>>, <<NilTime, Updated>>, <<Published, NilTime>>}

\* The items that can stand at place i of a feed: the GUID and the
\* description of an item are those of its place.
ItemsAt(i) ==
    {Item(c, i, t, i, d[1], d[2]) : c \in CategoryLists, t \in Titles, d \in ItemDates}

\* The feeds of n items.
RECURSIVE Feeds(_)
Feeds(n) ==
    IF n = 0
    THEN {<<>>}
    ELSE {Append(f, item) : f \in Feeds(n - 1), item \in ItemsAt(n)}

FeedInit ==
    /\ entries = <<>>
    /\ query = NoQuery
    /\ ApiParked
    /\ ConcParked
    /\ dateIn = [startDate |-> NilTime, futureDayOfWeek |-> <<>>]
    /\ dateOut = NoDateOut
    /\ \E n \in 0 .. MaxItems : feedIn \in Feeds(n)
    /\ feedOut = NoFeedOut
    /\ DecodersParked

\* A call s.parseFeed(feed) on the feed feedIn.
ParseFeed ==
    /\ ~feedOut.done
    /\ LET r == parseFeed(feedIn)
       IN  feedOut' = [done |-> TRUE, panic |-> r.panic,
                       forecasts |-> IF r.panic THEN <<>> ELSE r.forecasts]
    /\ UNCHANGED <<geoVars, apiVars, concVars, dateVars, feedIn, textVars>>

FeedNext == ParseFeed

SpecFeed == FeedInit /\ [][FeedNext]_vars

(***************************************************************************)
(* Station.parseFeed on one forecast item: its title and its dates.        *)
(***************************************************************************)
\* The titles of a forecast item: every day of the week by day and by
\* night, as the feed writes them, and titles whose first word is no day,
\* whose "night" is written or placed otherwise, or that have no colon.
ForecastTitles ==
    << \* Sunday: Mainly cloudy
       << "S", "u", "n", "d", "a", "y", ":", " ", "M", "a", "i", "n", "l",
          "y", " ", "c", "l", "o", "u", "d", "y" >>,
       \* Sunday night: Clear
       << "S", "u", "n", "d", "a", "y", " ", "n", "i", "g", "h", "t", ":",
          " ", "C", "l", "e", "a", "r" >>,
       \* Monday: Mainly cloudy
       << "M", "o", "n", "d", "a", "y", ":", " ", "M", "a", "i", "n", "l",
          "y", " ", "c", "l", "o", "u", "d", "y" >>,
       \* Monday night: Clear
       << "M", "o", "n", "d", "a", "y", " ", "n", "i", "g", "h", "t", ":",
          " ", "C", "l", "e", "a", "r" >>,
       \* Tuesday: Mainly cloudy
       << "T", "u", "e", "s", "d", "a", "y", ":", " ", "M", "a", "i", "n",
          "l", "y", " ", "c", "l", "o", "u", "d", "y" >>,
       \* Tuesday night: Clear
       << "T", "u", "e", "s", "d", "a", "y", " ", "n", "i", "g", "h", "t",
          ":", " ", "C", "l", "e", "a", "r" >>,
       \* Wednesday: Mainly cloudy
       << "W", "e", "d", "n", "e", "s", "d", "a", "y", ":", " ", "M", "a",
          "i", "n", "l", "y", " ", "c", "l", "o", "u", "d", "y" >>,
       \* Wednesday night: Clear
       << "W", "e", "d", "n", "e", "s", "d", "a", "y", " ", "n", "i", "g",
          "h", "t", ":", " ", "C", "l", "e", "a", "r" >>,
       \* Thursday: Mainly cloudy
       << "T", "h", "u", "r", "s", "d", "a", "y", ":", " ", "M", "a", "i",
          "n", "l", "y", " ", "c", "l", "o", "u", "d", "y" >>,
       \* Thursday night: Clear
       << "T", "h", "u", "r", "s", "d", "a", "y", " ", "n", "i", "g", "h",
          "t", ":", " ", "C", "l", "e", "a", "r" >>,
       \* Friday: Mainly cloudy
       << "F", "r", "i", "d", "a", "y", ":", " ", "M", "a", "i", "n", "l",
          "y", " ", "c", "l", "o", "u", "d", "y" >>,
       \* Friday night: Clear
       << "F", "r", "i", "d", "a", "y", " ", "n", "i", "g", "h", "t", ":",
          " ", "C", "l", "e", "a", "r" >>,
       \* Saturday: Mainly cloudy
       << "S", "a", "t", "u", "r", "d", "a", "y", ":", " ", "M", "a", "i",
          "n", "l", "y", " ", "c", "l", "o", "u", "d", "y" >>,
       \* Saturday night: Clear
       << "S", "a", "t", "u", "r", "d", "a", "y", " ", "n", "i", "g", "h",
          "t", ":", " ", "C", "l", "e", "a", "r" >>,
       \* Taco: x
       << "T", "a", "c", "o", ":", " ", "x" >>,
       \* Night: x
       << "N", "i", "g", "h", "t", ":", " ", "x" >>,
       \* Monday Night: x
       << "M", "o", "n", "d", "a", "y", " ", "N", "i", "g", "h", "t", ":",
          " ", "x" >>,
       \* Monday  night: x
       << "M", "o", "n", "d", "a", "y", " ", " ", "n", "i", "g", "h", "t",
          ":", " ", "x" >>,
       \* Monday evening night: x
       << "M", "o", "n", "d", "a", "y", " ", "e", "v", "e", "n", "i", "n",
          "g", " ", "n", "i", "g", "h", "t", ":", " ", "x" >>,
       \* tuesday night
       << "t", "u", "e", "s", "d", "a", "y", " ", "n", "i", "g", "h", "t" >>,
       \* FRIDAY
       << "F", "R", "I", "D", "A", "Y" >>,
       \*  Monday night: x
       << " ", "M", "o", "n", "d", "a", "y", " ", "n", "i", "g", "h", "t",
          ":", " ", "x" >>,
       \* Monday: night
       << "M", "o", "n", "d", "a", "y", ":", " ", "n", "i", "g", "h", "t" >> >>

\* The feed of one item tagged "Weather Forecasts", with the title at place
\* t of ForecastTitles (the item's GUID is t) and published at this time.
ForecastFeed(t, published) ==
    <<Item(<<"Weather Forecasts">>, t, ForecastTitles[t], 0, published, Updated)>>

ForecastForInit ==
    /\ entries = <<>>
    /\ query = NoQuery
    /\ ApiParked
    /\ ConcParked
    /\ dateIn = [startDate |-> NilTime, futureDayOfWeek |-> <<>>]
    /\ dateOut = NoDateOut
    /\ \E t \in DOMAIN ForecastTitles, d \in 0 .. MaxStartDay, m \in StartMinutes :
          feedIn = ForecastFeed(t, Time(d, m))
    /\ feedOut = NoFeedOut
    /\ DecodersParked

SpecForecastFor == ForecastForInit /\ [][FeedNext]_vars

(***************************************************************************)
(* The strings and strconv functions the text decoders call.               *)
(***************************************************************************)
\* unicode.IsSpace, on the white space of the feeds.
IsSpace(c) == c \in {" ", "\t", "\n", "\r"}

\* strings.TrimSpace
TrimSpace(str) ==
    LET keep == {i \in DOMAIN str : ~IsSpace(str[i])}
    IN  IF keep = {}
        THEN <<>>
        ELSE SubSeq(str, CHOOSE i \in keep : \A j \in keep : i <= j,
                         CHOOSE i \in keep : \A j \in keep : j <= i)

\* strings.Join
RECURSIVE Join(_, _)
Join(elems, sep) ==
    IF elems = <<>>
    THEN <<>>
    ELSE IF Len(elems) = 1
    THEN elems[1]
    ELSE elems[1] \o sep \o Join(Tail(elems), sep)

\* strings.Replace(str, old, new, -1) for an old that is not empty: every
\* occurrence of old, found from the left without overlap, becomes new.
Replace(str, old, new) == Join(Split(str, old), new)

\* strings.HasPrefix
HasPrefix(str, prefix) ==
    /\ Len(prefix) <= Len(str)
    /\ SubSeq(str, 1, Len(prefix)) = prefix

\* strings.TrimPrefix
TrimPrefix(str, prefix) ==
    IF HasPrefix(str, prefix)
    THEN SubSeq(str, Len(prefix) + 1, Len(str))
    ELSE str

\* strings.Contains, for a substr that is not empty.
Contains(str, substr) == \E i \in 1 .. Len(str) : OccursAt(str, substr, i)

Digits == <<"0", "1", "2", "3", "4", "5", "6", "7", "8", "9">>

IsDigit(c) == \E i \in DOMAIN Digits : Digits[i] = c

DigitValue(c) == (CHOOSE i \in DOMAIN Digits : Digits[i] = c) - 1

AllDigits(str) == \A i \in DOMAIN str : IsDigit(str[i])

\* The errors of strconv: *NumError with Err = ErrSyntax or ErrRange.
ErrSyntax == "invalid syntax"
ErrRange == "value out of range"

\* The smallest and the largest value of a signed integer of bitSize bits.
MinInt(bitSize) == IF bitSize = 8 THEN -128 ELSE -2147483647 - 1
MaxInt(bitSize) == IF bitSize = 8 THEN 127 ELSE 2147483647

\* The digits str[i ..] taken into acc, which holds minus the magnitude read
\* so far; [under |-> TRUE] once the magnitude is beyond -least.
RECURSIVE NegMagnitude(_, _, _, _)
NegMagnitude(str, i, acc, least) ==
    IF i > Len(str)
    THEN [under |-> FALSE, neg |-> acc]
    ELSE LET d == DigitValue(str[i])
         IN  IF acc < (least + d + 9) \div 10
             THEN [under |-> TRUE, neg |-> least]
             ELSE NegMagnitude(str, i + 1, acc * 10 - d, least)

\* strconv.ParseInt(s, 10, bitSize): the value and the error.  A syntax error
\* gives 0; a value out of range gives the nearest value of bitSize bits
\* together with ErrRange.
ParseInt(s, bitSize) ==
    LET signed == s # <<>> /\ s[1] \in {"+", "-"}
        neg == s # <<>> /\ s[1] = "-"
        body == IF signed THEN Tail(s) ELSE s
        m == NegMagnitude(body, 1, 0, MinInt(bitSize))
    IN  IF body = <<>> \/ ~AllDigits(body)
        THEN [val |-> 0, err |-> ErrSyntax]
        ELSE IF neg
        THEN IF m.under
             THEN [val |-> MinInt(bitSize), err |-> ErrRange]
             ELSE [val |-> m.neg, err |-> NoError]
        ELSE IF m.under \/ m.neg = MinInt(bitSize)
        THEN [val |-> MaxInt(bitSize), err |-> ErrRange]
        ELSE [val |-> -m.neg, err |-> NoError]

\* A float32 or float64 is a record: a finite value in thousandths (the
\* decimal numerals of the texts have at most three decimals, and the
\* rounding to the nearest float is left out), plus or minus infinity (milli
\* holds the sign), or NaN.
Finite(milli) == [class |-> "finite", milli |-> milli]
Inf(sign) == [class |-> "inf", milli |-> sign]
NaN == [class |-> "nan", milli |-> 0]

\* val *= -1
Negate(f) == [f EXCEPT !.milli = -f.milli]

\* The least integer that ParseFloat(s, 32) takes to infinity:
\* 2^128 - 2^103, half way from the largest float32 to 2^128.
Float32Overflow ==
    << "3", "4", "0", "2", "8", "2", "3", "5", "6", "7", "7", "9", "7",
       "3", "3", "6", "6", "1", "6", "3", "7", "5", "3", "9", "3", "9",
       "5", "4", "5", "8", "1", "4", "2", "5", "6", "8", "4", "4", "8" >>

\* a >= b for two numerals of the same length.
RECURSIVE NumeralGE(_, _, _)
NumeralGE(a, b, i) ==
    IF i > Len(a)
    THEN TRUE
    ELSE IF a[i] # b[i]
    THEN DigitValue(a[i]) > DigitValue(b[i])
    ELSE NumeralGE(a, b, i + 1)

\* A numeral without its leading zeros.
RECURSIVE StripZeros(_)
StripZeros(str) ==
    IF str # <<>> /\ str[1] = "0" THEN StripZeros(Tail(str)) ELSE str

\* The value of a numeral.
RECURSIVE NumeralValue(_)
NumeralValue(str) ==
    IF str = <<>>
    THEN 0
    ELSE NumeralValue(SubSeq(str, 1, Len(str) - 1)) * 10 + DigitValue(str[Len(str)])

\* strconv.ParseFloat(s, 32): the value and the error, on the numerals
\* without exponent, hexadecimal digits and underscores: an optional sign,
\* then "inf", "infinity" (in any case) or digits with at most one point and
\* at least one digit; "nan" without a sign.  A syntax error gives 0; a value
\* out of the range of float32 gives the infinity of its sign together with
\* ErrRange.
ParseFloat(s) ==
    LET signed == s # <<>> /\ s[1] \in {"+", "-"}
        sign == IF s # <<>> /\ s[1] = "-" THEN -1 ELSE 1
        body == IF signed THEN Tail(s) ELSE s
        parts == Split(body, <<".">>)
        whole == StripZeros(parts[1])
        frac == IF Len(parts) = 2 THEN parts[2] ELSE <<>>
        milli == NumeralValue(whole) * 1000
                    + NumeralValue(SubSeq(frac \o <<"0", "0", "0">>, 1, 3))
    IN  IF ToLower(body) \in {<<"i", "n", "f">>,
                              <<"i", "n", "f", "i", "n", "i", "t", "y">>}
        THEN [val |-> Inf(sign), err |-> NoError]
        ELSE IF ToLower(s) = <<"n", "a", "n">>
        THEN [val |-> NaN, err |-> NoError]
        ELSE IF \/ Len(parts) > 2
                \/ ~AllDigits(parts[1])
                \/ ~AllDigits(frac)
                \/ parts[1] = <<>> /\ frac = <<>>
        THEN [val |-> Finite(0), err |-> ErrSyntax]
        ELSE IF \/ Len(whole) > Len(Float32Overflow)
                \/ /\ Len(whole) = Len(Float32Overflow)
                   /\ NumeralGE(whole, Float32Overflow, 1)
        THEN [val |-> Inf(sign), err |-> ErrRange]
        ELSE [val |-> Finite(sign * milli), err |-> NoError]

\* int32(val) of a float64.  A value int32 cannot hold converts to an
\* implementation-dependent value: the minimum on amd64, the nearest value
\* (0 for NaN) on arm64.
Architectures == {"amd64", "arm64"}

Int32(f, arch) ==
    IF f.class = "finite"
    THEN IF f.milli >= 0 THEN f.milli \div 1000 ELSE -((-f.milli) \div 1000)
    ELSE IF arch = "amd64"
    THEN MinInt(32)
    ELSE IF f.class = "nan"
    THEN 0
    ELSE IF f.milli > 0 THEN MaxInt(32) ELSE MinInt(32)

(***************************************************************************)
(* The text decoders of the envcan station.                                *)
(***************************************************************************)
\* The keywords of iconFromFeedText.
kw ==
    [ snow |-> <<"s", "n", "o", "w">>,
      flurries |-> <<"f", "l", "u", "r", "r", "i", "e", "s">>,
      rain |-> <<"r", "a", "i", "n">>,
      chance |-> <<"c", "h", "a", "n", "c", "e">>,
      partially |-> <<"p", "a", "r", "t", "i", "a", "l", "l", "y">>,
      storm |-> <<"s", "t", "o", "r", "m">>,
      lightning |-> <<"l", "i", "g", "h", "t", "n", "i", "n", "g">>,
      thunder |-> <<"t", "h", "u", "n", "d", "e", "r">>,
      cloud |-> <<"c", "l", "o", "u", "d">>,
      sun |-> <<"s", "u", "n">>,
      fog |-> <<"f", "o", "g">>,
      mist |-> <<"m", "i", "s", "t">>,
      sunny |-> <<"s", "u", "n", "n", "y">> ]

\* iconFromFeedText testing "thunder" before "rain".
iconFromFeedTextThunderFirst(text) ==
    LET lower == ToLower(text)
    IN  IF Contains(lower, kw.snow) \/ Contains(lower, kw.flurries)
        THEN "SNOW"
        ELSE IF Contains(lower, kw.thunder)
        THEN "THUNDERSTORMS"
        ELSE IF Contains(lower, kw.rain)
        THEN IF Contains(lower, kw.chance) \/ Contains(lower, kw.partially)
             THEN "CHANCE_OF_RAIN"
             ELSE IF Contains(lower, kw.storm) \/ Contains(lower, kw.lightning)
             THEN "THUNDERSTORMS"
             ELSE "RAIN"
        ELSE IF Contains(lower, kw.cloud)
        THEN IF Contains(lower, kw.partially)
             THEN "PARTIALLY_CLOUDY"
             ELSE IF Contains(lower, kw.sun)
             THEN "MOSTLY_CLOUDY"
             ELSE "CLOUDY"
        ELSE IF Contains(lower, kw.fog) \/ Contains(lower, kw.mist)
        THEN "FOG"
        ELSE IF Contains(lower, kw.sunny)
        THEN IF Contains(lower, kw.partially)
             THEN "PARTIALLY_CLOUDY"
             ELSE "SUNNY"
        ELSE "SUNNY"

\* func iconFromFeedText(text string) weather.WeatherIcon
iconFromFeedText(text) ==
    LET lower == ToLower(text)
    IN  IF Contains(lower, kw.snow) \/ Contains(lower, kw.flurries)
        THEN "SNOW"
        ELSE IF Contains(lower, kw.rain)
        THEN IF Contains(lower, kw.chance) \/ Contains(lower, kw.partially)
             THEN "CHANCE_OF_RAIN"
             ELSE IF Contains(lower, kw.storm) \/ Contains(lower, kw.lightning)
             THEN "THUNDERSTORMS"
             ELSE "RAIN"
        ELSE IF Contains(lower, kw.thunder)
        THEN "THUNDERSTORMS"
        ELSE IF Contains(lower, kw.cloud)
        THEN IF Contains(lower, kw.partially)
             THEN "PARTIALLY_CLOUDY"
             ELSE IF Contains(lower, kw.sun)
             THEN "MOSTLY_CLOUDY"
             ELSE "CLOUDY"
        ELSE IF Contains(lower, kw.fog) \/ Contains(lower, kw.mist)
        THEN "FOG"
        ELSE IF Contains(lower, kw.sunny)
        THEN IF Contains(lower, kw.partially)
             THEN "PARTIALLY_CLOUDY"
             ELSE "SUNNY"
        ELSE "SUNNY"

\* &weather.WeatherCondition{}: every field at its zero value.
NoIcon == "WeatherIcon(0)"

EmptyCondition ==
    [Summary |-> <<>>, SummaryIcon |-> NoIcon, Temperature |-> Finite(0),
     Pressure |-> Finite(0), Visibility |-> 0, Humidity |-> 0,
     WindChill |-> Finite(0), DewPoint |-> Finite(0), WindSpeed |-> 0,
     UvIndex |-> 0]

\* The markup and the separators of the descriptions.
Markup ==
    [ BoldOpen |-> <<"<", "b", ">">>,
      BoldClose |-> <<"<", "/", "b", ">">>,
      LineBreak |-> <<"<", "b", "r", "/", ">">>,
      Colon |-> <<":">>,
      Space |-> <<" ">>,
      Period |-> <<".">> ]

\* The units the values are written with.
Unit ==
    [ DegC |-> <<"&", "d", "e", "g", ";", "C">>,
      KPa |-> <<" ", "k", "P", "a">>,
      Km |-> <<" ", "k", "m">>,
      Percent |-> <<" ", "%">>,
      KmPerHour |-> <<"k", "m", "/", "h">> ]

\* The labels of the lines of the current conditions.
Label ==
    [ Condition |-> <<"C", "o", "n", "d", "i", "t", "i", "o", "n">>,
      Temperature |-> <<"T", "e", "m", "p", "e", "r", "a", "t", "u", "r", "e">>,
      WindChill |-> <<"W", "i", "n", "d", " ", "C", "h", "i", "l", "l">>,
      Dewpoint |-> <<"D", "e", "w", "p", "o", "i", "n", "t">>,
      Pressure |-> <<"P", "r", "e", "s", "s", "u", "r", "e">>,
      Visibility |-> <<"V", "i", "s", "i", "b", "i", "l", "i", "t", "y">>,
      Humidity |-> <<"H", "u", "m", "i", "d", "i", "t", "y">>,
      Wind |-> <<"W", "i", "n", "d">> ]

\* WindSpeedText giving the empty string when the value has neither two nor
\* three tokens.
WindSpeedTextOrNone(str) ==
    LET parts == Split(str, Markup.Space)
    IN  IF Len(parts) = 2
        THEN parts[1]
        ELSE IF Len(parts) = 3
        THEN parts[2]
        ELSE <<>>

\* case "Wind": the text the wind speed is parsed from, of the value str:
\* token 0 of two tokens ("10 km/h"), token 1 of three ("ESE 10 km/h"), and
\* str itself for any other number of tokens.
WindSpeedText(str) ==
    LET parts == Split(str, Markup.Space)
    IN  IF Len(parts) = 2
        THEN parts[1]
        ELSE IF Len(parts) = 3
        THEN parts[2]
        ELSE str

\* The body of the loop of currentConditionsToCondition for one record, on
\* the condition so far.  arch is the machine the conversion int32(val) of
\* "Visibility" runs on.
CurrentRecord(cond, rawRecord, arch) ==
    LET record == Replace(Replace(TrimSpace(rawRecord), Markup.BoldOpen, <<>>),
                          Markup.BoldClose, <<>>)
        recordParts == Split(record, Markup.Colon)
        label == recordParts[1]
        str == TrimSpace(recordParts[2])
    IN  IF Len(recordParts) # 2
        THEN cond
        ELSE IF label = Label.Condition
        THEN [cond EXCEPT !.Summary = str, !.SummaryIcon = iconFromFeedText(str)]
        ELSE IF label = Label.Temperature
        THEN [cond EXCEPT !.Temperature = ParseFloat(Replace(str, Unit.DegC, <<>>)).val]
        ELSE IF label = Label.WindChill
        THEN [cond EXCEPT !.WindChill = ParseFloat(Replace(str, Unit.DegC, <<>>)).val]
        ELSE IF label = Label.Dewpoint
        THEN [cond EXCEPT !.DewPoint = ParseFloat(Replace(str, Unit.DegC, <<>>)).val]
        ELSE IF label = Label.Pressure
        THEN [cond EXCEPT !.Pressure = ParseFloat(Replace(str, Unit.KPa, <<>>)).val]
        ELSE IF label = Label.Visibility
        THEN [cond EXCEPT !.Visibility =
                  Int32(ParseFloat(Replace(str, Unit.Km, <<>>)).val, arch)]
        ELSE IF label = Label.Humidity
        THEN [cond EXCEPT !.Humidity = ParseInt(Replace(str, Unit.Percent, <<>>), 32).val]
        ELSE IF label = Label.Wind
        THEN [cond EXCEPT !.WindSpeed = ParseInt(WindSpeedText(str), 32).val]
        ELSE cond

\* for _, record := range records
RECURSIVE CurrentRecords(_, _, _, _)
CurrentRecords(cond, records, i, arch) ==
    IF i > Len(records)
    THEN cond
    ELSE CurrentRecords(CurrentRecord(cond, records[i], arch), records, i + 1, arch)

\* func currentConditionsToCondition(cc string) *weather.WeatherCondition
currentConditionsToCondition(cc, arch) ==
    CurrentRecords(EmptyCondition, Split(cc, Markup.LineBreak), 1, arch)

(***************************************************************************)
(* floatFromFeedText                                                       *)
(***************************************************************************)
Minus == <<"m", "i", "n", "u", "s">>

ErrNoValue == "no value present"

\* The body of the loop of floatFromFeedText for fields[fieldIdx], keeping
\* the first number found: a number after it is passed over.
FloatFieldFirst(acc, fields, fieldIdx) ==
    LET parsed == ParseFloat(fields[fieldIdx])
    IN  IF parsed.err # NoError \/ acc.retSet
        THEN acc
        ELSE [ret |-> IF fieldIdx # 1 /\ fields[fieldIdx - 1] = Minus
                      THEN Negate(parsed.val)
                      ELSE parsed.val,
              retSet |-> TRUE]

\* The body of the loop of floatFromFeedText for fields[fieldIdx], on the
\* running [ret, retSet].
FloatField(acc, fields, fieldIdx) ==
    LET parsed == ParseFloat(fields[fieldIdx])
    IN  IF parsed.err # NoError
        THEN acc
        ELSE [ret |-> IF fieldIdx # 1 /\ fields[fieldIdx - 1] = Minus
                      THEN Negate(parsed.val)
                      ELSE parsed.val,
              retSet |-> TRUE]

\* for fieldIdx, field := range fields
RECURSIVE FloatFields(_, _, _)
FloatFields(acc, fields, fieldIdx) ==
    IF fieldIdx > Len(fields)
    THEN acc
    ELSE FloatFields(FloatField(acc, fields, fieldIdx), fields, fieldIdx + 1)

\* func floatFromFeedText(input string) (float32, error)
floatFromFeedText(input) ==
    LET r == FloatFields([ret |-> Finite(0), retSet |-> FALSE],
                         Split(input, Markup.Space), 1)
    IN  IF r.retSet
        THEN [val |-> r.ret, err |-> NoError]
        ELSE [val |-> Finite(0), err |-> ErrNoValue]

(***************************************************************************)
(* floatFromFeedText on its own                                            *)
(***************************************************************************)
\* The tokens of a sentence: "minus", "Minus", "plus", the numbers 2, 1, -7
\* and 1.5, the empty token two spaces in a row make, and "values;".
FloatTokens ==
    << <<"m", "i", "n", "u", "s">>,
       <<"M", "i", "n", "u", "s">>,
       <<"p", "l", "u", "s">>,
       <<"2">>,
       <<"1">>,
       <<"-", "7">>,
       <<"1", ".", "5">>,
       <<>>,
       <<"v", "a", "l", "u", "e", "s", ";">> >>

\* The number of tokens of a sentence.
MaxTokens == 3

\* The sentence made of these tokens of FloatTokens, one space between two.
SentenceOf(ts) == Join([i \in DOMAIN ts |-> FloatTokens[ts[i]]], Markup.Space)

FloatInit ==
    /\ entries = <<>>
    /\ query = NoQuery
    /\ ApiParked
    /\ ConcParked
    /\ FeedParked
    /\ \E n \in 1 .. MaxTokens : \E ts \in [1 .. n -> DOMAIN FloatTokens] :
          textIn = [tokens |-> ts, input |-> SentenceOf(ts)]
    /\ textOut = NoTextOut

\* A call floatFromFeedText(textIn.input).
ExtractFloat ==
    /\ ~textOut.done
    /\ LET r == floatFromFeedText(textIn.input)
       IN  textOut' = [done |-> TRUE, val |-> r.val, err |-> r.err]
    /\ UNCHANGED <<geoVars, apiVars, concVars, dateVars, feedVars, textIn>>

FloatNext == ExtractFloat

SpecFloat == FloatInit /\ [][FloatNext]_vars

(***************************************************************************)
(* forecastConditionToCondition                                            *)
(***************************************************************************)
\* The words a sentence of a forecast begins with.
Prefix ==
    [ WindChill |-> <<"W", "i", "n", "d", " ", "c", "h", "i", "l", "l">>,
      Wind |-> <<"W", "i", "n", "d">>,
      WindSpace |-> <<"W", "i", "n", "d", " ">>,
      UVIndex |-> <<"U", "V", " ", "i", "n", "d", "e", "x">>,
      UVIndexSpace |-> <<"U", "V", " ", "i", "n", "d", "e", "x", " ">>,
      High |-> <<"H", "i", "g", "h">>,
      Low |-> <<"L", "o", "w">>,
      Temperature |-> <<"T", "e", "m", "p", "e", "r", "a", "t", "u", "r", "e">> ]

\* The "Wind" branch: the first field "km/h", not the first field of all,
\* whose field before it is an integer sets the wind speed to that integer.
WindRecord(cond, record) ==
    LET fields == Split(TrimPrefix(record, Prefix.WindSpace), Markup.Space)
        found == {i \in 2 .. Len(fields) :
                     /\ fields[i] = Unit.KmPerHour
                     /\ ParseInt(fields[i - 1], 32).err = NoError}
        first == CHOOSE i \in found : \A j \in found : i <= j
    IN  IF found = {}
        THEN cond
        ELSE [cond EXCEPT !.WindSpeed = ParseInt(fields[first - 1], 32).val]

\* The "UV index" branch.
UVIndexRecord(cond, record) ==
    LET fields == Split(TrimPrefix(record, Prefix.UVIndexSpace), Markup.Space)
        parsed == ParseInt(fields[1], 8)
    IN  IF parsed.err = NoError
        THEN [cond EXCEPT !.UvIndex = parsed.val]
        ELSE cond

\* The "Wind chill" branch.
WindChillRecord(cond, record) ==
    LET r == floatFromFeedText(record)
    IN  IF r.err = NoError THEN [cond EXCEPT !.WindChill = r.val] ELSE cond

\* The "High" / "Low" / "Temperature" branch.
TemperatureRecord(cond, record) ==
    LET r == floatFromFeedText(record)
    IN  IF r.err = NoError THEN [cond EXCEPT !.Temperature = r.val] ELSE cond

\* ForecastRecord testing the prefix "Wind" before the prefix "Wind chill".
ForecastRecordWindFirst(cond, rawRecord, idx) ==
    LET record == TrimSpace(rawRecord)
    IN  IF idx = 0
        THEN [cond EXCEPT !.Summary = record,
                          !.SummaryIcon = iconFromFeedText(record)]
        ELSE IF HasPrefix(record, Prefix.Wind)
        THEN WindRecord(cond, record)
        ELSE IF HasPrefix(record, Prefix.WindChill)
        THEN WindChillRecord(cond, record)
        ELSE IF HasPrefix(record, Prefix.UVIndex)
        THEN UVIndexRecord(cond, record)
        ELSE IF \/ HasPrefix(record, Prefix.High)
                \/ HasPrefix(record, Prefix.Low)
                \/ HasPrefix(record, Prefix.Temperature)
        THEN TemperatureRecord(cond, record)
        ELSE cond

\* The body of the loop of forecastConditionToCondition for the record at
\* idx (from 0), on the condition so far.
ForecastRecord(cond, rawRecord, idx) ==
    LET record == TrimSpace(rawRecord)
    IN  IF idx = 0
        THEN [cond EXCEPT !.Summary = record,
                          !.SummaryIcon = iconFromFeedText(record)]
        ELSE IF HasPrefix(record, Prefix.WindChill)
        THEN WindChillRecord(cond, record)
        ELSE IF HasPrefix(record, Prefix.Wind)
        THEN WindRecord(cond, record)
        ELSE IF HasPrefix(record, Prefix.UVIndex)
        THEN UVIndexRecord(cond, record)
        ELSE IF \/ HasPrefix(record, Prefix.High)
                \/ HasPrefix(record, Prefix.Low)
                \/ HasPrefix(record, Prefix.Temperature)
        THEN TemperatureRecord(cond, record)
        ELSE cond

\* for idx, record := range records: the condition before the first record
\* and after each record.
RECURSIVE ForecastRecords(_, _, _)
ForecastRecords(trace, records, i) ==
    IF i > Len(records)
    THEN trace
    ELSE ForecastRecords(
             Append(trace, ForecastRecord(trace[Len(trace)], records[i], i - 1)),
             records, i + 1)

\* The conditions forecastConditionToCondition(fc) goes through.
ForecastTrace(fc) == ForecastRecords(<<EmptyCondition>>, Split(fc, Markup.Period), 1)

\* func forecastConditionToCondition(fc string) *weather.WeatherCondition
forecastConditionToCondition(fc) ==
    LET trace == ForecastTrace(fc)
    IN  trace[Len(trace)]

(***************************************************************************)
(* forecastConditionToCondition on its own                                 *)
(***************************************************************************)
\* The sentences a forecast is made of: those of the decoder's test, and
\* sentences that meet a prefix without a value, two prefixes' words, or a
\* prefix in another case.
ForecastSentences ==
    << \* Mainly cloudy
       << "M", "a", "i", "n", "l", "y", " ", "c", "l", "o", "u", "d", "y" >>,
       \* Periods of snow
       << "P", "e", "r", "i", "o", "d", "s", " ", "o", "f", " ", "s", "n",
          "o", "w" >>,
       \* Wind becoming west 20 km/h late this afternoon
       << "W", "i", "n", "d", " ", "b", "e", "c", "o", "m", "i", "n", "g",
          " ", "w", "e", "s", "t", " ", "2", "0", " ", "k", "m", "/", "h",
          " ", "l", "a", "t", "e", " ", "t", "h", "i", "s", " ", "a", "f",
          "t", "e", "r", "n", "o", "o", "n" >>,
       \* Wind chill minus 7 in the morning and minus 14 in the afternoon
       << "W", "i", "n", "d", " ", "c", "h", "i", "l", "l", " ", "m", "i",
          "n", "u", "s", " ", "7", " ", "i", "n", " ", "t", "h", "e", " ",
          "m", "o", "r", "n", "i", "n", "g", " ", "a", "n", "d", " ", "m",
          "i", "n", "u", "s", " ", "1", "4", " ", "i", "n", " ", "t", "h",
          "e", " ", "a", "f", "t", "e", "r", "n", "o", "o", "n" >>,
       \* Wind chill near minus 9 with wind up to 30 km/h
       << "W", "i", "n", "d", " ", "c", "h", "i", "l", "l", " ", "n", "e",
          "a", "r", " ", "m", "i", "n", "u", "s", " ", "9", " ", "w", "i",
          "t", "h", " ", "w", "i", "n", "d", " ", "u", "p", " ", "t", "o",
          " ", "3", "0", " ", "k", "m", "/", "h" >>,
       \* Windy
       << "W", "i", "n", "d", "y" >>,
       \* UV index 1 or low
       << "U", "V", " ", "i", "n", "d", "e", "x", " ", "1", " ", "o", "r",
          " ", "l", "o", "w" >>,
       \* High plus 4
       << "H", "i", "g", "h", " ", "p", "l", "u", "s", " ", "4" >>,
       \* Temperature falling to minus 8 in the afternoon
       << "T", "e", "m", "p", "e", "r", "a", "t", "u", "r", "e", " ", "f",
          "a", "l", "l", "i", "n", "g", " ", "t", "o", " ", "m", "i", "n",
          "u", "s", " ", "8", " ", "i", "n", " ", "t", "h", "e", " ", "a",
          "f", "t", "e", "r", "n", "o", "o", "n" >>,
       \* wind chill minus 20 and wind 15 km/h
       << "w", "i", "n", "d", " ", "c", "h", "i", "l", "l", " ", "m", "i",
          "n", "u", "s", " ", "2", "0", " ", "a", "n", "d", " ", "w", "i",
          "n", "d", " ", "1", "5", " ", "k", "m", "/", "h" >>,
       \* Forecast issued 11:00 AM EST Saturday 05 January 2019
       << "F", "o", "r", "e", "c", "a", "s", "t", " ", "i", "s", "s", "u",
          "e", "d", " ", "1", "1", ":", "0", "0", " ", "A", "M", " ", "E",
          "S", "T", " ", "S", "a", "t", "u", "r", "d", "a", "y", " ", "0",
          "5", " ", "J", "a", "n", "u", "a", "r", "y", " ", "2", "0", "1",
          "9" >> >>

\* The number of sentences of a forecast.
MaxSentences == 3

\* The forecast made of these sentences of ForecastSentences: as in the
\* feed, a period and a space between two sentences.
NarrativeOf(ss) ==
    Join([i \in DOMAIN ss |-> ForecastSentences[ss[i]]], Markup.Period \o Markup.Space)

NarrativeInit ==
    /\ entries = <<>>
    /\ query = NoQuery
    /\ ApiParked
    /\ ConcParked
    /\ FeedParked
    /\ \E n \in 1 .. MaxSentences : \E ss \in [1 .. n -> DOMAIN ForecastSentences] :
          textIn = [sentences |-> ss, fc |-> NarrativeOf(ss)]
    /\ textOut = NoTextOut

\* A call forecastConditionToCondition(textIn.fc); trace keeps the condition
\* before the first record and after each record.
DecodeForecast ==
    /\ ~textOut.done
    /\ \E trace \in {ForecastTrace(textIn.fc)} :
          textOut' = [done |-> TRUE, cond |-> trace[Len(trace)], trace |-> trace]
    /\ UNCHANGED <<geoVars, apiVars, concVars, dateVars, feedVars, textIn>>

NarrativeNext == DecodeForecast

SpecNarrative == NarrativeInit /\ [][NarrativeNext]_vars

(***************************************************************************)
(* iconFromFeedText on its own                                             *)
(***************************************************************************)
\* The keywords, in the order the function first tests them.
IconKeywords ==
    <<kw.snow, kw.flurries, kw.rain, kw.chance, kw.partially, kw.storm,
      kw.lightning, kw.thunder, kw.cloud, kw.sun, kw.fog, kw.mist, kw.sunny>>

\* How a text writes its words: as they are, with a capital, in capitals.
Cases == {"lower", "title", "upper"}

Spelled(word, case) ==
    IF case = "upper" THEN ToUpper(word)
    ELSE IF case = "title" THEN Capitalized(word)
    ELSE word

\* The text "clear" followed by the keywords at the places ks, in the order
\* of IconKeywords, one space between two words.
RECURSIVE IconWords(_, _, _)
IconWords(ks, case, i) ==
    IF i > Len(IconKeywords)
    THEN <<>>
    ELSE IF i \in ks
    THEN Markup.Space \o Spelled(IconKeywords[i], case) \o IconWords(ks, case, i + 1)
    ELSE IconWords(ks, case, i + 1)

IconTextOf(ks, case) ==
    Spelled(<<"c", "l", "e", "a", "r">>, case) \o IconWords(ks, case, 1)

IconInit ==
    /\ entries = <<>>
    /\ query = NoQuery
    /\ ApiParked
    /\ ConcParked
    /\ FeedParked
    /\ \E ks \in SUBSET DOMAIN IconKeywords, case \in Cases :
          textIn = [keywords |-> ks, text |-> IconTextOf(ks, case)]
    /\ textOut = NoTextOut

\* A call iconFromFeedText(textIn.text).
ClassifyIcon ==
    /\ ~textOut.done
    /\ textOut' = [done |-> TRUE, icon |-> iconFromFeedText(textIn.text)]
    /\ UNCHANGED <<geoVars, apiVars, concVars, dateVars, feedVars, textIn>>

IconNext == ClassifyIcon

SpecIcon == IconInit /\ [][IconNext]_vars

(***************************************************************************)
(* currentConditionsToCondition on its own                                 *)
(***************************************************************************)
\* The lines a description of current conditions is made of: the lines of
\* the decoder's test, lines the decoder passes over, lines whose value is
\* no number, and "Wind" lines of one to five tokens.
CurrentLineTexts ==
    << \* <b>Condition:</b> Cloudy 
       << "<", "b", ">", "C", "o", "n", "d", "i", "t", "i", "o", "n", ":",
          "<", "/", "b", ">", " ", "C", "l", "o", "u", "d", "y", " " >>,
       \* <b>Temperature:</b> -1.3&deg;C 
       << "<", "b", ">", "T", "e", "m", "p", "e", "r", "a", "t", "u", "r",
          "e", ":", "<", "/", "b", ">", " ", "-", "1", ".", "3", "&", "d",
          "e", "g", ";", "C", " " >>,
       \* <b>Pressure:</b> 101.4 kPa 
       << "<", "b", ">", "P", "r", "e", "s", "s", "u", "r", "e", ":", "<",
          "/", "b", ">", " ", "1", "0", "1", ".", "4", " ", "k", "P", "a",
          " " >>,
       \* <b>Visibility:</b> 16.1 km
       << "<", "b", ">", "V", "i", "s", "i", "b", "i", "l", "i", "t", "y",
          ":", "<", "/", "b", ">", " ", "1", "6", ".", "1", " ", "k", "m" >>,
       \* <b>Humidity:</b> 86 %
       << "<", "b", ">", "H", "u", "m", "i", "d", "i", "t", "y", ":", "<",
          "/", "b", ">", " ", "8", "6", " ", "%" >>,
       \* <b>Wind Chill:</b> -7 
       << "<", "b", ">", "W", "i", "n", "d", " ", "C", "h", "i", "l", "l",
          ":", "<", "/", "b", ">", " ", "-", "7", " " >>,
       \* <b>Dewpoint:</b> -3.4&deg;C 
       << "<", "b", ">", "D", "e", "w", "p", "o", "i", "n", "t", ":", "<",
          "/", "b", ">", " ", "-", "3", ".", "4", "&", "d", "e", "g", ";",
          "C", " " >>,
       \* <b>Wind:</b> SW 21 km/h
       << "<", "b", ">", "W", "i", "n", "d", ":", "<", "/", "b", ">", " ",
          "S", "W", " ", "2", "1", " ", "k", "m", "/", "h" >>,
       \* <b>Wind:</b> 10 km/h
       << "<", "b", ">", "W", "i", "n", "d", ":", "<", "/", "b", ">", " ",
          "1", "0", " ", "k", "m", "/", "h" >>,
       \* <b>Observed at:</b> Airport 8:00 PM EST 
       << "<", "b", ">", "O", "b", "s", "e", "r", "v", "e", "d", " ", "a",
          "t", ":", "<", "/", "b", ">", " ", "A", "i", "r", "p", "o", "r",
          "t", " ", "8", ":", "0", "0", " ", "P", "M", " ", "E", "S", "T",
          " " >>,
       \* <b>Air Quality Health Index:</b> 2 
       << "<", "b", ">", "A", "i", "r", " ", "Q", "u", "a", "l", "i", "t",
          "y", " ", "H", "e", "a", "l", "t", "h", " ", "I", "n", "d", "e",
          "x", ":", "<", "/", "b", ">", " ", "2", " " >>,
       \* Temperature -5
       << "T", "e", "m", "p", "e", "r", "a", "t", "u", "r", "e", " ", "-",
          "5" >>,
       \* <b>Temperature:</b> 5:30
       << "<", "b", ">", "T", "e", "m", "p", "e", "r", "a", "t", "u", "r",
          "e", ":", "<", "/", "b", ">", " ", "5", ":", "3", "0" >>,
       \* <b>Temperature:</b> n/a
       << "<", "b", ">", "T", "e", "m", "p", "e", "r", "a", "t", "u", "r",
          "e", ":", "<", "/", "b", ">", " ", "n", "/", "a" >>,
       \* <b>Humidity:</b> 86.5 %
       << "<", "b", ">", "H", "u", "m", "i", "d", "i", "t", "y", ":", "<",
          "/", "b", ">", " ", "8", "6", ".", "5", " ", "%" >>,
       \* <b>Pressure:</b> 101,4 kPa
       << "<", "b", ">", "P", "r", "e", "s", "s", "u", "r", "e", ":", "<",
          "/", "b", ">", " ", "1", "0", "1", ",", "4", " ", "k", "P", "a" >>,
       \* <b>Humidity:</b> 3000000000 %
       << "<", "b", ">", "H", "u", "m", "i", "d", "i", "t", "y", ":", "<",
          "/", "b", ">", " ", "3", "0", "0", "0", "0", "0", "0", "0", "0",
          "0", " ", "%" >>,
       \* <b>Dewpoint:</b> 1... (40 digits) ...&deg;C
       << "<", "b", ">", "D", "e", "w", "p", "o", "i", "n", "t", ":", "<",
          "/", "b", ">", " ", "1", "0", "0", "0", "0", "0", "0", "0", "0",
          "0", "0", "0", "0", "0", "0", "0", "0", "0", "0", "0", "0", "0",
          "0", "0", "0", "0", "0", "0", "0", "0", "0", "0", "0", "0", "0",
          "0", "0", "0", "0", "0", "&", "d", "e", "g", ";", "C" >>,
       \* <b>Visibility:</b> inf km
       << "<", "b", ">", "V", "i", "s", "i", "b", "i", "l", "i", "t", "y",
          ":", "<", "/", "b", ">", " ", "i", "n", "f", " ", "k", "m" >>,
       \* <b>Wind:</b> 21
       << "<", "b", ">", "W", "i", "n", "d", ":", "<", "/", "b", ">", " ",
          "2", "1" >>,
       \* <b>Wind:</b> calm
       << "<", "b", ">", "W", "i", "n", "d", ":", "<", "/", "b", ">", " ",
          "c", "a", "l", "m" >>,
       \* <b>Wind:</b> SW 21 km/h gust 40
       << "<", "b", ">", "W", "i", "n", "d", ":", "<", "/", "b", ">", " ",
          "S", "W", " ", "2", "1", " ", "k", "m", "/", "h", " ", "g", "u",
          "s", "t", " ", "4", "0" >>,
       \* <b>Wind:</b> 9 8 7 6
       << "<", "b", ">", "W", "i", "n", "d", ":", "<", "/", "b", ">", " ",
          "9", " ", "8", " ", "7", " ", "6" >>,
       \* <b>Wind:</b> SW km/h
       << "<", "b", ">", "W", "i", "n", "d", ":", "<", "/", "b", ">", " ",
          "S", "W", " ", "k", "m", "/", "h" >>,
       \* <b>Wind:</b> 21 km/h gusting
       << "<", "b", ">", "W", "i", "n", "d", ":", "<", "/", "b", ">", " ",
          "2", "1", " ", "k", "m", "/", "h", " ", "g", "u", "s", "t", "i",
          "n", "g" >> >>

\* The number of lines of a description.
MaxLines == 2

\* The description made of these lines of CurrentLineTexts: as in the feed,
\* every line ends with "<br/>" and a line feed.
RECURSIVE BlockOf(_)
BlockOf(ls) ==
    IF ls = <<>>
    THEN <<>>
    ELSE CurrentLineTexts[Head(ls)] \o Markup.LineBreak \o <<"\n">> \o BlockOf(Tail(ls))

CurrentInit ==
    /\ entries = <<>>
    /\ query = NoQuery
    /\ ApiParked
    /\ ConcParked
    /\ FeedParked
    /\ \E n \in 0 .. MaxLines : \E ls \in [1 .. n -> DOMAIN CurrentLineTexts] :
          textIn = [lines |-> ls, cc |-> BlockOf(ls)]
    /\ textOut = NoTextOut

\* A call currentConditionsToCondition(textIn.cc) on a machine of this
\* architecture.
DecodeCurrent(arch) ==
    /\ ~textOut.done
    /\ textOut' = [done |-> TRUE,
                   cond |-> currentConditionsToCondition(textIn.cc, arch)]
    /\ UNCHANGED <<geoVars, apiVars, concVars, dateVars, feedVars, textIn>>

CurrentNext == \E arch \in Architectures : DecodeCurrent(arch)

SpecCurrent == CurrentInit /\ [][CurrentNext]_vars

(***************************************************************************)
(* The GeoSet on its own                                                   *)
(***************************************************************************)
GeoInit ==
    /\ entries = <<>>
    /\ query = NoQuery
    /\ ApiParked
    /\ ConcParked
    /\ TextParked

\* func (gs *GeoSet) Add(lat, lon, value)
Add(lat, lon, value) ==
    /\ Len(entries) < MaxEntries
    /\ entries' = Append(entries, NewEntry(lat, lon, value))
    /\ UNCHANGED <<query, apiVars, concVars, dateVars, feedVars, textVars>>

\* A call of Closest(lat, lon); the set is left as it is.
CallClosest(lat, lon) ==
    /\ query' = [done |-> TRUE, lat |-> lat, lon |-> lon, n |-> Len(entries),
                 value |-> Closest(entries, lat, lon)]
    /\ UNCHANGED <<entries, apiVars, concVars, dateVars, feedVars, textVars>>

\* The places entries are added at: the two entries of the GeoSet test and
\* two places as far from Origin as each other.
AddPoints == {Conestoga, Fairview, East, West}

\* The places Closest is asked for: the search point of the GeoSet test, a
\* place between East and West, and a place that holds an entry.
SearchPoints == {UW, Origin, East}

GeoNext ==
    \/ \E p \in AddPoints, v \in Payloads : Add(p[1], p[2], v)
    \/ \E p \in SearchPoints : CallClosest(p[1], p[2])

SpecGeo == GeoInit /\ [][GeoNext]_vars

(***************************************************************************)
(* Claims about the GeoSet (checked under SpecGeo).                        *)
(***************************************************************************)
\* The distance from the last query's point to entries[i].
QueryDistance(i) ==
    distance(query.lat, query.lon, entries[i].latitude, entries[i].longitude)

\* The entries the last query saw: the set only grows, by appending.
QueryIndices == 1 .. query.n

\* The brute-force oracle: the indices at minimal distance from the query.
NearestIndices ==
    {i \in QueryIndices : \A j \in QueryIndices : QueryDistance(i) <= QueryDistance(j)}

\* C6: on a non-empty set Closest returns the payload of an entry whose
\* distance to the query point is at most that of every other entry, and it
\* returns the empty result only when the set has no entry.
C6_ClosestIsNearest ==
    query.done =>
        /\ query.n > 0 => \E i \in NearestIndices : entries[i].value = query.value
        /\ query.value = NilValue => query.n = 0

\* A query over several entries whose nearest entry is not the first one
\* and carries another payload than the first.
C6_Witness ==
    /\ query.done
    /\ query.n >= 2
    /\ 1 \notin NearestIndices
    /\ query.value # entries[1].value
    /\ \E i \in NearestIndices : entries[i].value = query.value

\* C7: among several entries at the same minimal distance Closest returns
\* the payload of the one added first.
C7_FirstAddedWinsTie ==
    (query.done /\ query.n > 0) =>
        \E i \in NearestIndices :
            /\ \A j \in NearestIndices : i <= j
            /\ query.value = entries[i].value

\* Two entries at different places, equally near, with different payloads,
\* added after a farther entry: the earlier of the two was returned.
C7_Witness ==
    /\ query.done
    /\ \E i, j \in NearestIndices :
          /\ 1 < i
          /\ i < j
          /\ entries[i].value # entries[j].value
          /\ entries[i].latitude # entries[j].latitude
             \/ entries[i].longitude # entries[j].longitude
          /\ \A k \in NearestIndices : i <= k
          /\ query.value = entries[i].value

(***************************************************************************)
(* Claims about the station cache and the API (checked under Spec).  ret   *)
(* is the last API call: GetCurrentReport calls the station's GetReport,   *)
(* GetForecast calls the station's GetForecast, and ret.pre is the station *)
(* as the call found it.                                                   *)
(***************************************************************************)
\* The last call reached a station's GetReport.
WasGetReport == ret.op = "GetCurrentReport" /\ ret.station # NilValue

\* The last call reached a station's GetReport or GetForecast.
WasStationCall == ret.op # "none" /\ ret.station # NilValue

\* How long before the last call its station was last refreshed.
AgeAtCall == ret.at - ret.pre.lastRefreshed

\* C1: a GetReport call within the TTL window of the last refresh issues no
\* request and returns the cached report; a GetReport call on a station never
\* refreshed, or after the TTL window has passed, whose request succeeds,
\* issues exactly one request and returns and caches the report of that
\* request in place of the old one.
C1_OneFetchPerTTLWindow ==
    WasGetReport =>
        /\ (ret.pre.lastRefreshed # ZeroTime /\ AgeAtCall < refreshFrequency) =>
              /\ requests = ret.requestsBefore
              /\ ret.stationErr = NoError
              /\ ret.stationValue = ret.pre.currentReport
              /\ stations[ret.station] = ret.pre
        /\ ((ret.pre.lastRefreshed = ZeroTime \/ AgeAtCall > refreshFrequency)
                /\ ret.outcome = "ok") =>
              /\ requests = ret.requestsBefore + 1
              /\ ret.stationErr = NoError
              /\ ret.stationValue = requests
              /\ ret.stationValue # ret.pre.currentReport
              /\ stations[ret.station].currentReport = ret.stationValue

\* A second successful fetch, after the TTL window of the first, replaced
\* the report the first one cached.
C1_Witness ==
    /\ WasGetReport
    /\ ret.pre.currentReport # Nil
    /\ ret.pre.lastRefreshed # ZeroTime
    /\ AgeAtCall > refreshFrequency
    /\ ret.outcome = "ok"
    /\ requests = ret.requestsBefore + 1
    /\ stations[ret.station].currentReport = requests
    /\ stations[ret.station].currentReport # ret.pre.currentReport

\* C2: when the refresh of a station call fails (the fetch or the parse), the
\* call returns the failure, the cached report, forecast list and
\* last-refreshed time are as before the call, and one request was issued.
C2_FailureReturnedCacheKept ==
    (WasStationCall /\ ret.fetched /\ ret.outcome # "ok") =>
        /\ ~ret.stationPanic
        /\ ret.stationErr # NoError
        /\ stations[ret.station] = ret.pre
        /\ requests = ret.requestsBefore + 1

\* C3: when the upstream answers with a status that is not 2xx, GetReport and
\* GetForecast return a failure without crashing and leave the cache stale.
C3_Non2xxIsAFailure ==
    (WasStationCall /\ ret.outcome = "non200") =>
        /\ ~ret.stationPanic
        /\ ret.stationErr # NoError
        /\ stations[ret.station] = ret.pre

\* C4: when the selected station's GetReport or GetForecast returns a
\* failure, the query returns a failure too.
C4_StationFailureFailsQuery ==
    (WasStationCall /\ ret.stationErr # NoError) => ret.status = "err"

\* C5: with no station registered, GetCurrentReport and GetForecast return
\* the LocationNotFound failure.
C5_NoStationIsNotFound ==
    (ret.op # "none" /\ ret.pre = NoStation /\ ret.station = NilValue) =>
        /\ ret.status = "err"
        /\ ret.code = "NotFound"

\* C13 as stated: a station call fetches exactly when its station was never
\* refreshed or was last refreshed 30 minutes ago or more.
C13_StaleFromThirtyMinutes ==
    WasStationCall =>
        (ret.fetched <=>
            (ret.pre.lastRefreshed = ZeroTime \/ AgeAtCall >= refreshFrequency))

\* C13 as amended: a station call fetches exactly when its station was never
\* refreshed or was last refreshed more than 30 minutes ago; a call exactly
\* 30 minutes after the last refresh is served from the cache.
C13_StaleAfterThirtyMinutes ==
    WasStationCall =>
        /\ ret.fetched <=>
              (ret.pre.lastRefreshed = ZeroTime \/ AgeAtCall > refreshFrequency)
        /\ ret.fetched <=> (requests = ret.requestsBefore + 1)
        /\ ~ret.fetched <=> (requests = ret.requestsBefore)

\* A call exactly 30 minutes after the last refresh, served from the cache.
C13_Witness ==
    /\ WasStationCall
    /\ ret.pre.lastRefreshed # ZeroTime
    /\ AgeAtCall = refreshFrequency
    /\ ~ret.fetched
    /\ requests = ret.requestsBefore
    /\ ret.stationErr = NoError

\* C19: a station call of either operation that refreshes with success
\* replaces the cached report, the cached forecast list and the one
\* last-refreshed time of its station (the time its request ended); a call of either operation on a station
\* refreshed less than 30 minutes before issues no upstream request, leaves
\* the station as it is and returns what is cached.
C19_OneCacheOneTimestamp ==
    WasStationCall =>
        LET s == stations[ret.station]
        IN  /\ (ret.fetched /\ ~ret.stationPanic /\ ret.stationErr = NoError) =>
                  /\ requests = ret.requestsBefore + 1
                  /\ s.currentReport = requests
                  /\ s.forecast = IF s.kind = "envcan" THEN requests ELSE Nil
                  /\ s.lastRefreshed \in {ret.at + l : l \in Latencies}
                  /\ s.lastRefreshed <= now
            /\ (ret.pre.lastRefreshed # ZeroTime /\ AgeAtCall < refreshFrequency) =>
                  /\ ~ret.fetched
                  /\ requests = ret.requestsBefore
                  /\ s = ret.pre
                  /\ ret.stationErr = NoError
                  /\ ret.stationValue = IF ret.op = "GetForecast" THEN s.forecast
                                        ELSE s.currentReport

\* A GetForecast call 20 minutes after the only refresh of an envcan
\* station: it issues no request and returns the forecast list of that
\* refresh.
C19_Witness ==
    /\ WasStationCall
    /\ ret.op = "GetForecast"
    /\ ret.pre.kind = "envcan"
    /\ ret.pre.lastRefreshed # ZeroTime
    /\ AgeAtCall = 20
    /\ ~ret.fetched
    /\ ret.requestsBefore = 1
    /\ requests = 1
    /\ ret.pre.currentReport = 1
    /\ ret.forecast = 1


(***************************************************************************)
\* No refresh is between its first and its last write to the cache.
NoRefreshWriting ==
    \A g \in Goroutines : pc[g] \notin {"setForecast", "setLastRefreshed"}

\* C8: the cached report and the cached forecast list of the feed-based
\* station come from the same upstream fetch whenever no refresh is in the
\* middle of writing them.
C8_ReportAndForecastFromOneFetch ==
    (TheStation.kind = "envcan" /\ NoRefreshWriting) =>
        TheStation.currentReport = TheStation.forecast

\* Both goroutines have been through a whole refresh and neither is inside
\* another one.
BothRefreshed ==
    \A g \in Goroutines : pc[g] \in {"return", "idle"} /\ local[g].report # Nil

\* Each of the refreshes had an upstream request of its own.
EachFetchedItsOwn ==
    /\ requests >= Cardinality(Goroutines)
    /\ \A g, h \in Goroutines : g # h => local[g].feed # local[h].feed

\* C18: when both calls have refreshed the station, each has issued an
\* upstream request of its own, and the cache holds the result of one of the
\* two refreshes (the one that wrote last): its report with its forecast list.
C18_TwoFetchesLastWriterWins ==
    BothRefreshed =>
        /\ EachFetchedItsOwn
        /\ \E g \in Goroutines :
              /\ TheStation.currentReport = local[g].report
              /\ TheStation.forecast = local[g].forecast

(***************************************************************************)
(* Claims about the relative date resolver (checked under SpecDate).       *)
(***************************************************************************)
\* name spells, in any mix of cases, the k-th day of the week (Sunday = 0).
SpellsDay(name, k) ==
    /\ Len(name) = Len(dayOfWeek[k + 1])
    /\ \A i \in 1 .. Len(name) :
          \/ name[i] = dayOfWeek[k + 1][i]
          \/ name[i] = ToUpper(dayOfWeek[k + 1])[i]

\* C9: for a target name that spells a day of the week the resolver succeeds
\* and adds d days, 0 <= d <= 6, to the anchor; the result falls on the
\* target weekday and d = 0 exactly when the target is the anchor's weekday.
\* For any other name it fails with InvalidDate.
C9_ResolverMovesForwardToTarget ==
    dateOut.done =>
        LET d == dateOut.date.day - dateIn.startDate.day
        IN  /\ \A k \in 0 .. 6 :
                  SpellsDay(dateIn.futureDayOfWeek, k) =>
                      /\ dateOut.err = NoError
                      /\ d \in 0 .. 6
                      /\ Weekday(dateOut.date) = k
                      /\ (d = 0) <=> (k = Weekday(dateIn.startDate))
            /\ (\A k \in 0 .. 6 : ~SpellsDay(dateIn.futureDayOfWeek, k)) =>
                  dateOut.err = ErrInvalidDate

\* The resolver's test: from Saturday 2019-01-05 (day 6), "Monday" resolves
\* to 2019-01-07 (day 8).
C9_Witness ==
    /\ dateOut.done
    /\ dateIn.startDate.day = 6
    /\ dateIn.futureDayOfWeek = WeekdayNames[2]
    /\ dateOut.err = NoError
    /\ dateOut.date.day = 8

(***************************************************************************)
(* Claims about parseFeed (checked under SpecFeed).                        *)
(***************************************************************************)
\* The places of the items of the feed tagged "Weather Forecasts", in feed
\* order.
RECURSIVE TaggedFrom(_)
TaggedFrom(i) ==
    IF i > Len(feedIn)
    THEN <<>>
    ELSE IF \E k \in DOMAIN feedIn[i].Categories :
               feedIn[i].Categories[k] = "Weather Forecasts"
    THEN <<i>> \o TaggedFrom(i + 1)
    ELSE TaggedFrom(i + 1)

\* Every item of the feed has its published and its updated date.
AllDated ==
    \A i \in DOMAIN feedIn :
        feedIn[i].PublishedParsed # NilTime /\ feedIn[i].UpdatedParsed # NilTime

\* The day token of the item's title is no day name.
NoDayToken(item) == Split(item.Title, <<":">>)[1] = Taco

\* C10: of a feed whose items have their dates, every item tagged "Weather
\* Forecasts" yields exactly one forecast record, in feed order, with its id,
\* condition and created/updated timestamps; when the day token of its title
\* is no day name the record is there with forecasted_for absent.
C10_OneForecastPerTaggedItem ==
    (feedOut.done /\ AllDated) =>
        LET tagged == TaggedFrom(1)
        IN  /\ ~feedOut.panic
            /\ Len(feedOut.forecasts) = Len(tagged)
            /\ \A j \in DOMAIN tagged :
                  LET item == feedIn[tagged[j]]
                      f == feedOut.forecasts[j]
                  IN  /\ f.ForecastId = item.GUID
                      /\ f.Conditions =
                            Decoded("forecastConditionToCondition", item.Description)
                      /\ f.CreatedAt = item.PublishedParsed
                      /\ f.UpdatedAt = item.UpdatedParsed
                      /\ NoDayToken(item) <=> f.ForecastedFor = NilTime

(***************************************************************************)
(* Claims about currentConditionsToCondition (checked under SpecCurrent).  *)
(* textIn.lines are the lines of the description, by their place in       *)
(* CurrentLineTexts.                                                       *)
(***************************************************************************)
\* What each line of CurrentLineTexts is to the decoder: the fields its
\* label stands for (none when the line does not split into two parts at
\* ":" or its label is not recognized) and the values it gives them: the
\* number written in it, zero when what is written is no number the field
\* can take.  A line with the fields but no values is not judged here.
C11_Expect ==
    << [fields |-> {"Summary", "SummaryIcon"},
        expect |-> [Summary |-> <<"C", "l", "o", "u", "d", "y">>, SummaryIcon |-> "CLOUDY"]],
       [fields |-> {"Temperature"},
        expect |-> [Temperature |-> Finite(-1300)]],
       [fields |-> {"Pressure"},
        expect |-> [Pressure |-> Finite(101400)]],
       [fields |-> {"Visibility"},
        expect |-> [Visibility |-> 16]],
       [fields |-> {"Humidity"},
        expect |-> [Humidity |-> 86]],
       [fields |-> {"WindChill"},
        expect |-> [WindChill |-> Finite(-7000)]],
       [fields |-> {"DewPoint"},
        expect |-> [DewPoint |-> Finite(-3400)]],
       [fields |-> {"WindSpeed"},
        expect |-> [WindSpeed |-> 21]],
       [fields |-> {"WindSpeed"},
        expect |-> [WindSpeed |-> 10]],
       [fields |-> {}, expect |-> <<>>],
       [fields |-> {}, expect |-> <<>>],
       [fields |-> {}, expect |-> <<>>],
       [fields |-> {}, expect |-> <<>>],
       [fields |-> {"Temperature"},
        expect |-> [Temperature |-> Finite(0)]],
       [fields |-> {"Humidity"},
        expect |-> [Humidity |-> 0]],
       [fields |-> {"Pressure"},
        expect |-> [Pressure |-> Finite(0)]],
       [fields |-> {"Humidity"},
        expect |-> [Humidity |-> 0]],
       [fields |-> {"DewPoint"},
        expect |-> [DewPoint |-> Finite(0)]],
       [fields |-> {"Visibility"}, expect |-> <<>>],
       [fields |-> {"WindSpeed"}, expect |-> <<>>],
       [fields |-> {"WindSpeed"},
        expect |-> [WindSpeed |-> 0]],
       [fields |-> {"WindSpeed"},
        expect |-> [WindSpeed |-> 0]],
       [fields |-> {"WindSpeed"},
        expect |-> [WindSpeed |-> 0]],
       [fields |-> {"WindSpeed"},
        expect |-> [WindSpeed |-> 0]],
       [fields |-> {"WindSpeed"},
        expect |-> [WindSpeed |-> 0]] >>

\* The line at place i of the description is the last one for field f.
LastFor(i, f) ==
    \A j \in DOMAIN textIn.lines :
        j > i => f \notin C11_Expect[textIn.lines[j]].fields

\* C11: a line that does not split into two parts, a line with an unknown
\* label and a known label whose value is no number leave the decoding
\* going: each field holds what the last line for it gives it (zero when its
\* value is no number), and a field no line stands for holds its zero value.
C11_MalformedLinesLeaveTheRest ==
    textOut.done =>
        /\ \A i \in DOMAIN textIn.lines :
              LET line == C11_Expect[textIn.lines[i]]
              IN  \A f \in DOMAIN line.expect :
                      LastFor(i, f) => textOut.cond[f] = line.expect[f]
        /\ \A f \in DOMAIN EmptyCondition :
              (\A i \in DOMAIN textIn.lines : f \notin C11_Expect[textIn.lines[i]].fields)
                  => textOut.cond[f] = EmptyCondition[f]

\* What each line of CurrentLineTexts is as a "Wind" line: the number of
\* tokens of its value (0: the line is no "Wind" line) and the integers
\* that token 0 and token 1 write (0 when the token is no integer).
WindValue ==
    << [count |-> 0, token0 |-> 0, token1 |-> 0],
       [count |-> 0, token0 |-> 0, token1 |-> 0],
       [count |-> 0, token0 |-> 0, token1 |-> 0],
       [count |-> 0, token0 |-> 0, token1 |-> 0],
       [count |-> 0, token0 |-> 0, token1 |-> 0],
       [count |-> 0, token0 |-> 0, token1 |-> 0],
       [count |-> 0, token0 |-> 0, token1 |-> 0],
       [count |-> 3, token0 |-> 0, token1 |-> 21],
       [count |-> 2, token0 |-> 10, token1 |-> 0],
       [count |-> 0, token0 |-> 0, token1 |-> 0],
       [count |-> 0, token0 |-> 0, token1 |-> 0],
       [count |-> 0, token0 |-> 0, token1 |-> 0],
       [count |-> 0, token0 |-> 0, token1 |-> 0],
       [count |-> 0, token0 |-> 0, token1 |-> 0],
       [count |-> 0, token0 |-> 0, token1 |-> 0],
       [count |-> 0, token0 |-> 0, token1 |-> 0],
       [count |-> 0, token0 |-> 0, token1 |-> 0],
       [count |-> 0, token0 |-> 0, token1 |-> 0],
       [count |-> 0, token0 |-> 0, token1 |-> 0],
       [count |-> 1, token0 |-> 21, token1 |-> 0],
       [count |-> 1, token0 |-> 0, token1 |-> 0],
       [count |-> 5, token0 |-> 0, token1 |-> 21],
       [count |-> 4, token0 |-> 9, token1 |-> 8],
       [count |-> 2, token0 |-> 0, token1 |-> 0],
       [count |-> 3, token0 |-> 21, token1 |-> 0] >>

\* C14 as stated: the value of a "Wind" line sets wind_speed from token 0
\* when it has two tokens and from token 1 when it has three; with any other
\* number of tokens wind_speed is zero.
C14_WindOtherCountsAreZero ==
    textOut.done =>
        \A i \in DOMAIN textIn.lines :
            LET w == WindValue[textIn.lines[i]]
            IN  (w.count > 0 /\ LastFor(i, "WindSpeed")) =>
                    textOut.cond.WindSpeed =
                        IF w.count = 2 THEN w.token0
                        ELSE IF w.count = 3 THEN w.token1
                        ELSE 0

\* C14 as amended: the value of a "Wind" line sets wind_speed from token 0
\* when it has two tokens, from token 1 when it has three, and from its only
\* token when it has one; with four tokens or more wind_speed is zero.
C14_WindSpeedByTokenCount ==
    textOut.done =>
        \A i \in DOMAIN textIn.lines :
            LET w == WindValue[textIn.lines[i]]
            IN  (w.count > 0 /\ LastFor(i, "WindSpeed")) =>
                    textOut.cond.WindSpeed =
                        IF w.count \in {1, 2} THEN w.token0
                        ELSE IF w.count = 3 THEN w.token1
                        ELSE 0

\* A description whose last "Wind" line has the single token 21 decoded to
\* the wind speed 21.
C14_Witness ==
    /\ textOut.done
    /\ \E i \in DOMAIN textIn.lines :
          /\ WindValue[textIn.lines[i]].count = 1
          /\ WindValue[textIn.lines[i]].token0 = 21
          /\ LastFor(i, "WindSpeed")
    /\ textOut.cond.WindSpeed = 21

(***************************************************************************)
(* Claims about floatFromFeedText (checked under SpecFloat).  textIn.tokens *)
(* are the tokens of the sentence, by their place in FloatTokens.          *)
(***************************************************************************)
\* Which tokens of FloatTokens are numbers, and the number each one writes.
C12_Number ==
    << [number |-> FALSE, value |-> Finite(0)],
       [number |-> FALSE, value |-> Finite(0)],
       [number |-> FALSE, value |-> Finite(0)],
       [number |-> TRUE, value |-> Finite(2000)],
       [number |-> TRUE, value |-> Finite(1000)],
       [number |-> TRUE, value |-> Finite(-7000)],
       [number |-> TRUE, value |-> Finite(1500)],
       [number |-> FALSE, value |-> Finite(0)],
       [number |-> FALSE, value |-> Finite(0)] >>

\* The places of the sentence that hold a number.
NumberPlaces == {i \in DOMAIN textIn.tokens : C12_Number[textIn.tokens[i]].number}

\* The last of them.
LastNumberPlace == CHOOSE i \in NumberPlaces : \A j \in NumberPlaces : j <= i

\* C12: floatFromFeedText returns the number of the last token that is a
\* number, negated exactly when the token right before it is "minus", and
\* fails with "no value present" exactly when no token is a number.
C12_LastNumberSignedByMinus ==
    textOut.done =>
        IF NumberPlaces = {}
        THEN textOut.err = ErrNoValue
        ELSE LET last == LastNumberPlace
                 number == C12_Number[textIn.tokens[last]].value
             IN  /\ textOut.err = NoError
                 /\ textOut.val =
                       IF last > 1 /\ FloatTokens[textIn.tokens[last - 1]] = Minus
                       THEN Negate(number)
                       ELSE number

\* "minus 2 1": a "minus" and a number before the last number, which has no
\* "minus" right before it, and the result is that last number as written.
C12_Witness ==
    /\ textOut.done
    /\ Len(textIn.tokens) = 3
    /\ FloatTokens[textIn.tokens[1]] = Minus
    /\ NumberPlaces = {2, 3}
    /\ textOut.err = NoError
    /\ textOut.val = C12_Number[textIn.tokens[3]].value
    /\ textOut.val # C12_Number[textIn.tokens[2]].value

(***************************************************************************)
(* Claims about forecastConditionToCondition (checked under                *)
(* SpecNarrative).  textIn.sentences are the sentences of the forecast, by *)
(* their place in ForecastSentences.                                       *)
(***************************************************************************)
\* What each sentence of ForecastSentences is to the decoder when it is not
\* the first one: the field of the rule of its prefix ("none": no prefix),
\* whether the rule finds a value in it, and that value; and the icon of the
\* sentence when it is the first one.
C15_Sentence ==
    << [field |-> "none", sets |-> FALSE, value |-> 0,
        icon |-> "CLOUDY"],
       [field |-> "none", sets |-> FALSE, value |-> 0,
        icon |-> "SNOW"],
       [field |-> "WindSpeed", sets |-> TRUE, value |-> 20,
        icon |-> "SUNNY"],
       [field |-> "WindChill", sets |-> TRUE, value |-> Finite(-14000),
        icon |-> "SUNNY"],
       [field |-> "WindChill", sets |-> TRUE, value |-> Finite(30000),
        icon |-> "SUNNY"],
       [field |-> "WindSpeed", sets |-> FALSE, value |-> 0,
        icon |-> "SUNNY"],
       [field |-> "UvIndex", sets |-> TRUE, value |-> 1,
        icon |-> "SUNNY"],
       [field |-> "Temperature", sets |-> TRUE, value |-> Finite(4000),
        icon |-> "SUNNY"],
       [field |-> "Temperature", sets |-> TRUE, value |-> Finite(-8000),
        icon |-> "SUNNY"],
       [field |-> "none", sets |-> FALSE, value |-> 0,
        icon |-> "SUNNY"],
       [field |-> "none", sets |-> FALSE, value |-> 0,
        icon |-> "SUNNY"] >>

\* C15: the first sentence sets the summary and the icon and nothing else;
\* a later sentence changes no field but the one of the first rule whose
\* prefix it starts with ("Wind chill" before "Wind"), sets that field to
\* the value the rule finds, and changes nothing when it meets no prefix or
\* the rule finds no value.
C15_OneRuleOneFieldPerSentence ==
    textOut.done =>
        /\ Len(textOut.trace) = Len(textIn.sentences) + 1
        /\ textOut.cond = textOut.trace[Len(textOut.trace)]
        /\ \A i \in DOMAIN textIn.sentences :
              LET before == textOut.trace[i]
                  after == textOut.trace[i + 1]
                  sentence == C15_Sentence[textIn.sentences[i]]
              IN  IF i = 1
                  THEN /\ after.Summary = ForecastSentences[textIn.sentences[i]]
                       /\ after.SummaryIcon = sentence.icon
                       /\ \A f \in DOMAIN EmptyCondition \ {"Summary", "SummaryIcon"} :
                             after[f] = before[f]
                  ELSE /\ \A f \in DOMAIN EmptyCondition \ {sentence.field} :
                             after[f] = before[f]
                       /\ sentence.field # "none" =>
                             after[sentence.field] =
                                 IF sentence.sets THEN sentence.value
                                 ELSE before[sentence.field]

\* "<summary>. Wind ... 20 km/h .... Wind chill minus 7 ... minus 14 ...":
\* the "Wind chill" sentence set the wind chill and left the wind speed the
\* "Wind" sentence had set.
C15_Witness ==
    /\ textOut.done
    /\ Len(textIn.sentences) = 3
    /\ C15_Sentence[textIn.sentences[2]].field = "WindSpeed"
    /\ C15_Sentence[textIn.sentences[2]].sets
    /\ C15_Sentence[textIn.sentences[3]].field = "WindChill"
    /\ textOut.cond.WindSpeed = 20
    /\ textOut.cond.WindChill = Finite(-14000)
    /\ textOut.cond.Temperature = Finite(0)

(***************************************************************************)
(* Claims about iconFromFeedText (checked under SpecIcon).                 *)
(* textIn.keywords are the keywords written in the text, by their place in *)
(* IconKeywords.                                                           *)
(***************************************************************************)
\* The text holds this keyword: it is written in it, or it is "sun" and
\* "sunny" is written in it.
Holds(keyword) ==
    \E i \in textIn.keywords :
        \/ IconKeywords[i] = keyword
        \/ keyword = kw.sun /\ IconKeywords[i] = kw.sunny

\* C16: the icon is decided by the keywords the text holds, whatever their
\* case, the first of these rules that applies: snow or flurries: SNOW;
\* rain: CHANCE_OF_RAIN with chance or partially, else THUNDERSTORMS with
\* storm or lightning, else RAIN; thunder: THUNDERSTORMS; cloud:
\* PARTIALLY_CLOUDY with partially, else MOSTLY_CLOUDY with sun, else CLOUDY;
\* fog or mist: FOG; sunny: PARTIALLY_CLOUDY with partially, else SUNNY; no
\* rule: SUNNY.
C16_IconByFirstKeywordRule ==
    textOut.done =>
        textOut.icon =
            CASE Holds(kw.snow) \/ Holds(kw.flurries) -> "SNOW"
              [] OTHER ->
            CASE Holds(kw.rain) /\ (Holds(kw.chance) \/ Holds(kw.partially))
                     -> "CHANCE_OF_RAIN"
              [] Holds(kw.rain) /\ (Holds(kw.storm) \/ Holds(kw.lightning))
                     -> "THUNDERSTORMS"
              [] Holds(kw.rain) -> "RAIN"
              [] OTHER ->
            CASE Holds(kw.thunder) -> "THUNDERSTORMS"
              [] OTHER ->
            CASE Holds(kw.cloud) /\ Holds(kw.partially) -> "PARTIALLY_CLOUDY"
              [] Holds(kw.cloud) /\ Holds(kw.sun) -> "MOSTLY_CLOUDY"
              [] Holds(kw.cloud) -> "CLOUDY"
              [] OTHER ->
            CASE Holds(kw.fog) \/ Holds(kw.mist) -> "FOG"
              [] OTHER ->
            CASE Holds(kw.sunny) /\ Holds(kw.partially) -> "PARTIALLY_CLOUDY"
              [] OTHER -> "SUNNY"

\* "RAIN CHANCE THUNDER CLOUD": rain with chance wins over thunder and cloud.
C16_Witness ==
    /\ textOut.done
    /\ Holds(kw.rain) /\ Holds(kw.chance) /\ Holds(kw.thunder) /\ Holds(kw.cloud)
    /\ ~Holds(kw.snow) /\ ~Holds(kw.flurries)
    /\ textIn.text # ToLower(textIn.text)
    /\ textOut.icon = "CHANCE_OF_RAIN"

(***************************************************************************)
(* Claims about the date of a forecast (checked under SpecForecastFor).    *)
(***************************************************************************)
\* What each title of ForecastTitles says: the day of the week its first
\* word names (Sunday = 0; -1: no day) and whether the word after it is
\* "night".
C17_Title ==
    << [day |-> 0, night |-> FALSE],
       [day |-> 0, night |-> TRUE],
       [day |-> 1, night |-> FALSE],
       [day |-> 1, night |-> TRUE],
       [day |-> 2, night |-> FALSE],
       [day |-> 2, night |-> TRUE],
       [day |-> 3, night |-> FALSE],
       [day |-> 3, night |-> TRUE],
       [day |-> 4, night |-> FALSE],
       [day |-> 4, night |-> TRUE],
       [day |-> 5, night |-> FALSE],
       [day |-> 5, night |-> TRUE],
       [day |-> 6, night |-> FALSE],
       [day |-> 6, night |-> TRUE],
       [day |-> -1, night |-> FALSE],
       [day |-> -1, night |-> FALSE],
       [day |-> 1, night |-> FALSE],
       [day |-> 1, night |-> FALSE],
       [day |-> 1, night |-> FALSE],
       [day |-> 2, night |-> TRUE],
       [day |-> 5, night |-> FALSE],
       [day |-> -1, night |-> FALSE],
       [day |-> 1, night |-> FALSE] >>

\* C17: the forecast of an item whose title names a day is for the first
\* date from the day of publication on that falls on that day of the week,
\* at 23:00 when the word after the day is "night" and at 12:00 otherwise,
\* whatever the time of day of the publication.
C17_ForecastedForNoonOrNight ==
    (feedOut.done /\ ~feedOut.panic) =>
        /\ Len(feedOut.forecasts) = 1
        /\ LET title == C17_Title[feedIn[1].GUID]
               anchor == feedIn[1].PublishedParsed
               delta == (title.day - Weekday(anchor)) % 7
           IN  title.day >= 0 =>
                   feedOut.forecasts[1].ForecastedFor =
                       Time(anchor.day + delta, IF title.night THEN 23 * 60 ELSE 12 * 60)

\* A forecast for a night of another day than the day of publication,
\* published at 23:59: it is for 23:00 of the later day.
C17_Witness ==
    /\ feedOut.done
    /\ ~feedOut.panic
    /\ Len(feedOut.forecasts) = 1
    /\ C17_Title[feedIn[1].GUID].night
    /\ feedIn[1].PublishedParsed.minute = 1439
    /\ feedOut.forecasts[1].ForecastedFor.day > feedIn[1].PublishedParsed.day
    /\ feedOut.forecasts[1].ForecastedFor.minute = 23 * 60

====
